---- MODULE Spec2Model ----
\* A model of plane-py: the asynchronous client PlaneClient of
\* src/plane_py/api.py, its transport primitive _request, the dataclasses of
\* src/plane_py/_types.py and the error types of src/plane_py/errors.py.
\*
\* A call of a public method is split at its only await point: Call runs the
\* method up to the moment the HTTP request is on the wire, Respond (or Fault)
\* delivers what the network produced and runs the rest of the method.
EXTENDS Integers, Sequences, FiniteSets, TLC

\* ---------------------------------------------------------------------------
\* Bounds
\* ---------------------------------------------------------------------------
\* Longest list of elements a response body carries.
MaxList == 2

\* ---------------------------------------------------------------------------
\* JSON values as Python sees them after response.json().  A scalar carries
\* the text str() gives for it, so that conversions are computed on text and
\* values of different Python types never compare equal.
\* ---------------------------------------------------------------------------
JStr(s) == [t |-> "str", v |-> s]

JInt(s) == [t |-> "int", v |-> s]

JFloat(s) == [t |-> "float", v |-> s]

JBool(s) == [t |-> "bool", v |-> s]

JNull == [t |-> "null", v |-> "None"]

EmptyMap == [k \in {} |-> JNull]

JObj(f) == [t |-> "obj", o |-> f]

JArr(s) == [t |-> "arr", l |-> s]

\* A body that is not JSON (an HTML error page, an empty 200 body).
NonJson == [t |-> "nonjson", v |-> ""]

\* The absence of a json= argument on a request.
NoBody == [t |-> "nobody", v |-> ""]

\* An instance of one of the dataclasses.
Rec(kind, fields) == [t |-> "rec", kind |-> kind, o |-> fields]

\* Result of evaluating a Python expression: a value, or a raised exception.
Ok(x) == [ok |-> TRUE, val |-> x, exc |-> "none"]

Err(e) == [ok |-> FALSE, val |-> JNull, exc |-> e]

\* Schema and mapping table entries.
F(n, ty) == [name |-> n, type |-> ty, hasDefault |-> FALSE, default |-> JNull]

FD(n, ty, d) == [name |-> n, type |-> ty, hasDefault |-> TRUE, default |-> d]

G(f, d) == [field |-> f, src |-> "get", dflt |-> d, conv |-> "none"]

GC(f, d, c) == [field |-> f, src |-> "get", dflt |-> d, conv |-> c]

SLUG(f) == [field |-> f, src |-> "slug", dflt |-> JNull, conv |-> "none"]

Range(s) == {s[i] : i \in DOMAIN s}

Restrict(f, S) == [k \in (DOMAIN f) \cap S |-> f[k]]

\* Segments of the f-string a method passes to _request as endpoint.
Lit(s) == [k |-> "lit", s |-> s]

Param(s) == [k |-> "param", s |-> s]

Self(s) == [k |-> "self", s |-> s]

\* ---------------------------------------------------------------------------
\* Record schemas: the dataclasses of _types.py, one field per annotation, in
\* declaration order.  F(name, type) is a field without a default (a required
\* constructor argument); FD is a field that declares a default value.
\* ---------------------------------------------------------------------------
\* class State: src/plane_py/_types.py lines 38-51
StateSchema ==
    << F("id", "str"), F("created_at", "str"), F("updated_at", "str"), F("name", "str"),
       F("description", "str"), F("color", "str"), F("workspace_slug", "str"),
       F("sequence", "str"), F("group", "str"), F("default", "bool"),
       F("created_by", "str"), F("updated_by", "str"), F("project", "str"),
       F("workspace", "str") >>

\* class Project: src/plane_py/_types.py lines 123-154
ProjectSchema ==
    << F("archive_in", "int"), F("close_in", "int"), F("cover_image", "str"),
       F("created_at", "str"), F("created_by", "str"), F("cycle_view", "bool"),
       F("default_assignee", "str"), F("default_state", "str"), F("description", "str"),
       F("description_html", "str"), F("description_text", "str"), F("emoji", "str"),
       F("estimate", "str"), F("icon_prop", "dict"), F("id", "str"),
       F("identifier", "str"), F("inbox_view", "bool"), F("is_deployed", "bool"),
       F("is_member", "bool"), F("issue_views_view", "bool"), F("member_role", "int"),
       F("module_view", "bool"), F("name", "str"), F("network", "int"),
       F("page_view", "bool"), F("project_lead", "str"), F("total_cycles", "int"),
       F("total_members", "int"), F("total_modules", "int"), F("updated_at", "str"),
       F("updated_by", "str"), F("workspace", "str") >>

\* class Label: src/plane_py/_types.py lines 186-197
LabelSchema ==
    << F("id", "str"), F("created_at", "str"), F("updated_at", "str"), F("name", "str"),
       F("description", "str"), F("color", "str"), F("sort_order", "float"),
       F("created_by", "str"), F("updated_by", "str"), F("project", "str"),
       F("workspace", "str"), FD("parent", "optstr", JNull) >>

\* class Link: src/plane_py/_types.py lines 227-237
LinkSchema ==
    << F("id", "str"), F("created_at", "str"), F("updated_at", "str"), F("title", "str"),
       F("url", "str"), F("metadata", "dict"), F("created_by", "str"),
       F("updated_by", "str"), F("project", "str"), F("workspace", "str"),
       F("issue", "str") >>

\* class Issue: src/plane_py/_types.py lines 291-313
IssueSchema ==
    << F("id", "str"), F("created_at", "str"), F("updated_at", "str"),
       F("estimate_point", "optfloat"), F("name", "str"), F("description_html", "str"),
       F("description_stripped", "str"), F("priority", "str"), F("start_date", "optstr"),
       F("target_date", "optstr"), F("sequence_id", "int"), F("sort_order", "float"),
       F("completed_at", "optstr"), F("archived_at", "optstr"), F("is_draft", "bool"),
       F("created_by", "str"), F("updated_by", "str"), F("project", "str"),
       F("workspace", "str"), F("parent", "optstr"), F("state", "str"),
       F("assignees", "list"), F("labels", "list") >>

\* class IssueActivity: src/plane_py/_types.py lines 355-371
IssueActivitySchema ==
    << F("id", "str"), F("created_at", "str"), F("updated_at", "str"), F("verb", "str"),
       F("field", "optstr"), F("old_value", "optstr"), F("new_value", "optstr"),
       F("comment", "str"), F("attachments", "list"), F("old_identifier", "optstr"),
       F("new_identifier", "optstr"), F("epoch", "float"), F("project", "str"),
       F("workspace", "str"), F("issue", "str"), F("issue_comment", "optstr"),
       F("actor", "str") >>

\* class IssueComment: src/plane_py/_types.py lines 407-420
IssueCommentSchema ==
    << F("id", "str"), F("created_at", "str"), F("updated_at", "str"),
       F("comment_stripped", "str"), F("comment_json", "dict"), F("comment_html", "str"),
       F("attachments", "list"), F("access", "str"), F("created_by", "str"),
       F("updated_by", "str"), F("project", "str"), F("workspace", "str"),
       F("issue", "str"), F("actor", "str") >>

\* class Module: src/plane_py/_types.py lines 464-481
ModuleSchema ==
    << F("id", "str"), F("created_at", "str"), F("updated_at", "str"), F("name", "str"),
       F("description", "str"), F("description_text", "optstr"),
       F("description_html", "optstr"), F("start_date", "optstr"),
       F("target_date", "optstr"), F("status", "str"), F("view_props", "dict"),
       F("sort_order", "float"), F("created_by", "str"), F("updated_by", "str"),
       F("project", "str"), F("workspace", "str"), F("lead", "optstr"),
       F("members", "list") >>

\* class ModuleIssue: src/plane_py/_types.py lines 509-518
ModuleIssueSchema ==
    << F("id", "str"), F("sub_issues_count", "int"), F("created_at", "str"),
       F("updated_at", "str"), F("created_by", "str"), F("updated_by", "str"),
       F("project", "str"), F("workspace", "str"), F("module", "str"), F("issue", "str") >>

\* class Cycle: src/plane_py/_types.py lines 554-567
CycleSchema ==
    << F("id", "str"), F("created_at", "str"), F("updated_at", "str"), F("name", "str"),
       F("description", "str"), F("start_date", "optstr"), F("end_date", "optstr"),
       F("view_props", "dict"), F("sort_order", "float"), F("created_by", "str"),
       F("updated_by", "str"), F("project", "str"), F("workspace", "str"),
       F("owned_by", "str") >>

\* class CycleIssue: src/plane_py/_types.py lines 595-604
CycleIssueSchema ==
    << F("id", "str"), F("sub_issues_count", "int"), F("created_at", "str"),
       F("updated_at", "str"), F("created_by", "str"), F("updated_by", "str"),
       F("project", "str"), F("workspace", "str"), F("cycle", "str"), F("issue", "str") >>

\* class IntakeIssue: src/plane_py/_types.py lines 636-647
IntakeIssueSchema ==
    << F("id", "str"), F("pending_issue_count", "int"), F("created_at", "str"),
       F("updated_at", "str"), F("name", "str"), F("description", "str"),
       F("is_default", "bool"), F("view_props", "dict"), F("created_by", "str"),
       F("updated_by", "str"), F("project", "str"), F("workspace", "str") >>

\* class IssueType: src/plane_py/_types.py lines 687-702
IssueTypeSchema ==
    << F("id", "str"), F("name", "str"), F("description", "str"), F("logo_props", "dict"),
       F("level", "int"), F("is_active", "bool"), F("is_default", "bool"),
       F("deleted_at", "optstr"), F("workspace", "str"), F("project", "str"),
       F("created_by", "str"), F("updated_by", "str"), F("created_at", "str"),
       F("updated_at", "str"), F("external_id", "optstr"), F("external_source", "optstr") >>

\* class IssueProperty: src/plane_py/_types.py lines 758-781
IssuePropertySchema ==
    << F("id", "str"), F("created_at", "str"), F("updated_at", "str"),
       F("deleted_at", "optstr"), F("name", "str"), F("display_name", "str"),
       F("description", "str"), F("logo_props", "dict"), F("sort_order", "float"),
       F("property_type", "str"), F("relation_type", "optstr"), F("is_required", "bool"),
       F("default_value", "list"), F("settings", "dict"), F("is_active", "bool"),
       F("is_multi", "bool"), F("validation_rules", "dict"),
       F("external_source", "optstr"), F("external_id", "optstr"), F("created_by", "str"),
       F("updated_by", "str"), F("workspace", "str"), F("project", "str"),
       F("issue_type", "str") >>

\* class PropertyOption: src/plane_py/_types.py lines 825-842
PropertyOptionSchema ==
    << F("id", "str"), F("created_at", "str"), F("updated_at", "str"),
       F("deleted_at", "optstr"), F("name", "str"), F("sort_order", "float"),
       F("description", "str"), F("logo_props", "dict"), F("is_active", "bool"),
       F("is_default", "bool"), F("external_source", "optstr"), F("external_id", "optstr"),
       F("created_by", "str"), F("updated_by", "str"), F("workspace", "str"),
       F("project", "str"), F("property", "str"), F("parent", "optstr") >>

\* class PropertyValue: src/plane_py/_types.py lines 886-903
PropertyValueSchema ==
    << F("id", "str"), F("created_at", "str"), F("updated_at", "str"),
       F("deleted_at", "optstr"), F("name", "str"), F("sort_order", "float"),
       F("description", "str"), F("logo_props", "dict"), F("is_active", "bool"),
       F("is_default", "bool"), F("external_source", "optstr"), F("external_id", "optstr"),
       F("created_by", "str"), F("updated_by", "str"), F("workspace", "str"),
       F("project_ids", "list"), F("property", "str"), F("parent", "optstr") >>

Schema ==
    [ State |-> StateSchema,
      Project |-> ProjectSchema,
      Label |-> LabelSchema,
      Link |-> LinkSchema,
      Issue |-> IssueSchema,
      IssueActivity |-> IssueActivitySchema,
      IssueComment |-> IssueCommentSchema,
      Module |-> ModuleSchema,
      ModuleIssue |-> ModuleIssueSchema,
      Cycle |-> CycleSchema,
      CycleIssue |-> CycleIssueSchema,
      IntakeIssue |-> IntakeIssueSchema,
      IssueType |-> IssueTypeSchema,
      IssueProperty |-> IssuePropertySchema,
      PropertyOption |-> PropertyOptionSchema,
      PropertyValue |-> PropertyValueSchema ]
\* ---------------------------------------------------------------------------
\* Hand-written constructor calls of api.py: one entry per keyword argument, in
\* the order the call evaluates them.  G(f, d) is f=data.get(f, d);
\* GC(f, d, c) wraps the looked-up value in the conversion c (float, int, str);
\* SLUG(f) is f=self.workspace_slug.
\* ---------------------------------------------------------------------------
\* get_states, get_state_details, create_state, update_state: first at src/plane_py/api.py lines 214-229
StateMapping ==
    << G("id", JStr("")), G("created_at", JStr("")), G("updated_at", JStr("")),
       G("name", JStr("")), G("description", JStr("")), G("color", JStr("")),
       SLUG("workspace_slug"), GC("sequence", JStr(""), "str"), G("group", JStr("")),
       G("default", JBool("False")), G("created_by", JStr("")), G("updated_by", JStr("")),
       G("project", JStr("")), G("workspace", JStr("")) >>

\* get_modules, get_module_details, create_module, update_module: first at src/plane_py/api.py lines 435-454
ModuleMapping ==
    << G("id", JStr("")), G("created_at", JStr("")), G("updated_at", JStr("")),
       G("name", JStr("")), G("description", JStr("")), G("description_text", JStr("")),
       G("description_html", JStr("")), G("start_date", JNull), G("target_date", JNull),
       G("status", JStr("")), G("view_props", JObj(EmptyMap)),
       G("sort_order", JFloat("0.0")), G("created_by", JStr("")),
       G("updated_by", JStr("")), G("project", JStr("")), G("workspace", JStr("")),
       G("lead", JStr("")), G("members", JArr(<<>>)) >>

\* get_module_issues: first at src/plane_py/api.py lines 674-685
ModuleIssueListMapping ==
    << G("id", JStr("")), G("sub_issues_count", JInt("0")), G("created_at", JStr("")),
       G("updated_at", JStr("")), G("created_by", JStr("")), G("updated_by", JStr("")),
       G("project", JStr("")), G("workspace", JStr("")), G("module", JStr("")),
       G("issue", JStr("")) >>

\* create_module_issue: first at src/plane_py/api.py lines 733-744
ModuleIssueCreateMapping ==
    << G("id", JStr("")), GC("sub_issues_count", JInt("0"), "int"),
       G("created_at", JStr("")), G("updated_at", JStr("")), G("created_by", JStr("")),
       G("updated_by", JStr("")), G("project", JStr("")), G("workspace", JStr("")),
       G("module", JStr("")), G("issue", JStr("")) >>

\* get_links, get_link_details, create_link, update_link: first at src/plane_py/api.py lines 800-812
LinkMapping ==
    << G("id", JStr("")), G("created_at", JStr("")), G("updated_at", JStr("")),
       G("title", JStr("")), G("url", JStr("")), G("metadata", JObj(EmptyMap)),
       G("created_by", JStr("")), G("updated_by", JStr("")), G("project", JStr("")),
       G("workspace", JStr("")), G("issue", JStr("")) >>

\* get_labels, get_label_details, create_label, update_label: first at src/plane_py/api.py lines 1011-1024
LabelMapping ==
    << G("id", JStr("")), G("created_at", JStr("")), G("updated_at", JStr("")),
       G("name", JStr("")), G("description", JStr("")), G("color", JStr("")),
       GC("sort_order", JFloat("0.0"), "float"), G("created_by", JStr("")),
       G("updated_by", JStr("")), G("project", JStr("")), G("workspace", JStr("")),
       G("parent", JNull) >>

\* get_issues, get_issue_details, create_issue, update_issue: first at src/plane_py/api.py lines 1225-1249
IssueMapping ==
    << G("id", JStr("")), G("created_at", JStr("")), G("updated_at", JStr("")),
       G("estimate_point", JNull), G("name", JStr("")), G("description_html", JStr("")),
       G("description_stripped", JStr("")), G("priority", JStr("")),
       G("start_date", JNull), G("target_date", JNull), G("sequence_id", JInt("0")),
       GC("sort_order", JFloat("0.0"), "float"), G("completed_at", JNull),
       G("archived_at", JNull), G("is_draft", JBool("False")), G("created_by", JStr("")),
       G("updated_by", JStr("")), G("project", JStr("")), G("workspace", JStr("")),
       G("parent", JNull), G("state", JStr("")), G("assignees", JArr(<<>>)),
       G("labels", JArr(<<>>)) >>

\* get_issue_comments, get_comment_details, create_comment, update_comment: first at src/plane_py/api.py lines 1484-1499
IssueCommentMapping ==
    << G("id", JStr("")), G("created_at", JStr("")), G("updated_at", JStr("")),
       G("comment_stripped", JStr("")), G("comment_json", JObj(EmptyMap)),
       G("comment_html", JStr("")), G("attachments", JArr(<<>>)), G("access", JStr("")),
       G("created_by", JStr("")), G("updated_by", JStr("")), G("issue", JStr("")),
       G("project", JStr("")), G("workspace", JStr("")), G("actor", JStr("")) >>

\* get_issue_activity, get_activity_details: first at src/plane_py/api.py lines 1712-1730
IssueActivityMapping ==
    << G("id", JStr("")), G("created_at", JStr("")), G("updated_at", JStr("")),
       G("verb", JStr("")), G("field", JNull), G("old_value", JNull),
       G("new_value", JNull), G("comment", JStr("")), G("attachments", JArr(<<>>)),
       G("old_identifier", JNull), G("new_identifier", JNull),
       GC("epoch", JFloat("0.0"), "float"), G("project", JStr("")),
       G("workspace", JStr("")), G("issue", JStr("")), G("issue_comment", JNull),
       G("actor", JStr("")) >>

\* get_cycles, get_cycle_details, create_cycle, update_cycle: first at src/plane_py/api.py lines 1808-1823
CycleMapping ==
    << G("id", JStr("")), G("created_at", JStr("")), G("updated_at", JStr("")),
       G("name", JStr("")), G("description", JStr("")), G("start_date", JNull),
       G("end_date", JNull), G("view_props", JObj(EmptyMap)),
       GC("sort_order", JFloat("0.0"), "float"), G("created_by", JStr("")),
       G("updated_by", JStr("")), G("project", JStr("")), G("workspace", JStr("")),
       G("owned_by", JStr("")) >>

\* get_cycle_issues: first at src/plane_py/api.py lines 2031-2042
CycleIssueListMapping ==
    << G("id", JStr("")), G("sub_issues_count", JInt("0")), G("created_at", JStr("")),
       G("updated_at", JStr("")), G("created_by", JStr("")), G("updated_by", JStr("")),
       G("project", JStr("")), G("workspace", JStr("")), G("cycle", JStr("")),
       G("issue", JStr("")) >>

\* create_cycle_issue: first at src/plane_py/api.py lines 2090-2101
CycleIssueCreateMapping ==
    << G("id", JStr("")), GC("sub_issues_count", JInt("0"), "int"),
       G("created_at", JStr("")), G("updated_at", JStr("")), G("created_by", JStr("")),
       G("updated_by", JStr("")), G("project", JStr("")), G("workspace", JStr("")),
       G("cycle", JStr("")), G("issue", JStr("")) >>

\* get_intake_issues, get_intake_issue_details, create_intake_issue, update_intake_issue: first at src/plane_py/api.py lines 2156-2169
IntakeIssueMapping ==
    << G("id", JStr("")), G("pending_issue_count", JInt("0")), G("created_at", JStr("")),
       G("updated_at", JStr("")), G("name", JStr("")), G("description", JStr("")),
       G("is_default", JBool("False")), G("view_props", JObj(EmptyMap)),
       G("created_by", JStr("")), G("updated_by", JStr("")), G("project", JStr("")),
       G("workspace", JStr("")) >>

\* get_issue_types, get_type_details, create_type, update_type: first at src/plane_py/api.py lines 2365-2382
IssueTypeMapping ==
    << G("id", JStr("")), G("name", JStr("")), G("description", JStr("")),
       G("logo_props", JObj(EmptyMap)), G("level", JInt("0")),
       G("is_active", JBool("True")), G("is_default", JBool("False")),
       G("deleted_at", JStr("")), G("workspace", JStr("")), G("project", JStr("")),
       G("created_by", JStr("")), G("updated_by", JStr("")), G("created_at", JStr("")),
       G("updated_at", JStr("")), G("external_id", JStr("")),
       G("external_source", JStr("")) >>

Mappings ==
    [ StateMapping |-> StateMapping,
      ModuleMapping |-> ModuleMapping,
      ModuleIssueListMapping |-> ModuleIssueListMapping,
      ModuleIssueCreateMapping |-> ModuleIssueCreateMapping,
      LinkMapping |-> LinkMapping,
      LabelMapping |-> LabelMapping,
      IssueMapping |-> IssueMapping,
      IssueCommentMapping |-> IssueCommentMapping,
      IssueActivityMapping |-> IssueActivityMapping,
      CycleMapping |-> CycleMapping,
      CycleIssueListMapping |-> CycleIssueListMapping,
      CycleIssueCreateMapping |-> CycleIssueCreateMapping,
      IntakeIssueMapping |-> IntakeIssueMapping,
      IssueTypeMapping |-> IssueTypeMapping ]
\* ---------------------------------------------------------------------------
\* The public operations of PlaneClient (api.py), one record per method:
\*   kind      dataclass the method builds
\*   verb      list / get / create / update / delete
\*   method, path   arguments of the single self._request call; a path
\*             segment is a literal, a parameter or an attribute of self
\*   params    named parameters of the method, kwargs whether it takes **kwargs
\*   bodyInit  the literal the request body starts from, as <<key, parameter>>
\*   wrap      "issue" when the body is nested under the key issue
\*   filter    which caller-supplied mapping is filtered into the body
\*   emptyCheck  whether "if not filtered_data: raise ValueError" is present
\*   sendsBody whether json= is passed to _request
\*   shape     the shape test applied to the response
\*   style, preAssign, mapping   how an element becomes a record
\*   onError, message   the except Exception handler
\* ---------------------------------------------------------------------------
ProjectOps ==
    [ \* src/plane_py/api.py lines 26-60
      get_projects |->
        [ kind |-> "Project", verb |-> "list", method |-> "GET",
          path |-> << Lit("/api/v1/workspaces/"), Self("workspace_slug"), Lit("/projects/") >>,
          params |-> << >>, kwargs |-> FALSE, bodyInit |-> << >>,
          wrap |-> "none", filter |-> "none", emptyCheck |-> FALSE, sendsBody |-> FALSE,
          shape |-> "results", style |-> "filter", preAssign |-> FALSE, mapping |-> "none",
          onError |-> "empty_list", message |-> "" ],
      \* src/plane_py/api.py lines 62-88
      get_project_details |->
        [ kind |-> "Project", verb |-> "get", method |-> "GET",
          path |-> << Lit("/api/v1/workspaces/"), Self("workspace_slug"), Lit("/projects/"), Param("project_id"), Lit("/") >>,
          params |-> << "project_id" >>, kwargs |-> FALSE, bodyInit |-> << >>,
          wrap |-> "none", filter |-> "none", emptyCheck |-> FALSE, sendsBody |-> FALSE,
          shape |-> "none", style |-> "filter", preAssign |-> FALSE, mapping |-> "none",
          onError |-> "PlaneError", message |-> "Error fetching project details" ],
      \* src/plane_py/api.py lines 90-127
      update_project |->
        [ kind |-> "Project", verb |-> "update", method |-> "PATCH",
          path |-> << Lit("/api/v1/workspaces/"), Self("workspace_slug"), Lit("/projects/"), Param("project_id"), Lit("/") >>,
          params |-> << "project_id" >>, kwargs |-> TRUE, bodyInit |-> << >>,
          wrap |-> "none", filter |-> "kwargs", emptyCheck |-> TRUE, sendsBody |-> TRUE,
          shape |-> "none", style |-> "filter", preAssign |-> FALSE, mapping |-> "none",
          onError |-> "PlaneError", message |-> "Error updating project" ],
      \* src/plane_py/api.py lines 129-165
      create_project |->
        [ kind |-> "Project", verb |-> "create", method |-> "POST",
          path |-> << Lit("/api/v1/workspaces/"), Self("workspace_slug"), Lit("/projects/") >>,
          params |-> << "name", "identifier" >>, kwargs |-> TRUE, bodyInit |-> << <<"name", "name">>, <<"identifier", "identifier">> >>,
          wrap |-> "none", filter |-> "kwargs", emptyCheck |-> FALSE, sendsBody |-> TRUE,
          shape |-> "none", style |-> "filter", preAssign |-> FALSE, mapping |-> "none",
          onError |-> "PlaneError", message |-> "Error creating project" ],
      \* src/plane_py/api.py lines 167-187
      delete_project |->
        [ kind |-> "Project", verb |-> "delete", method |-> "DELETE",
          path |-> << Lit("/api/v1/workspaces/"), Self("workspace_slug"), Lit("/projects/"), Param("project_id"), Lit("/") >>,
          params |-> << "project_id" >>, kwargs |-> FALSE, bodyInit |-> << >>,
          wrap |-> "none", filter |-> "none", emptyCheck |-> FALSE, sendsBody |-> FALSE,
          shape |-> "ignored", style |-> "none", preAssign |-> FALSE, mapping |-> "none",
          onError |-> "false", message |-> "" ] ]

StateOps ==
    [ \* src/plane_py/api.py lines 189-240
      get_states |->
        [ kind |-> "State", verb |-> "list", method |-> "GET",
          path |-> << Lit("/api/v1/workspaces/"), Self("workspace_slug"), Lit("/projects/"), Param("project_id"), Lit("/states/") >>,
          params |-> << "project_id" >>, kwargs |-> FALSE, bodyInit |-> << >>,
          wrap |-> "none", filter |-> "none", emptyCheck |-> FALSE, sendsBody |-> FALSE,
          shape |-> "results", style |-> "explicit", preAssign |-> TRUE, mapping |-> "StateMapping",
          onError |-> "PlaneError", message |-> "Error fetching project states" ],
      \* src/plane_py/api.py lines 242-282
      get_state_details |->
        [ kind |-> "State", verb |-> "get", method |-> "GET",
          path |-> << Lit("/api/v1/workspaces/"), Self("workspace_slug"), Lit("/projects/"), Param("project_id"), Lit("/states/"), Param("state_id"), Lit("/") >>,
          params |-> << "project_id", "state_id" >>, kwargs |-> FALSE, bodyInit |-> << >>,
          wrap |-> "none", filter |-> "none", emptyCheck |-> FALSE, sendsBody |-> FALSE,
          shape |-> "dict_check", style |-> "explicit", preAssign |-> FALSE, mapping |-> "StateMapping",
          onError |-> "PlaneError", message |-> "Error fetching state details" ],
      \* src/plane_py/api.py lines 284-334
      create_state |->
        [ kind |-> "State", verb |-> "create", method |-> "POST",
          path |-> << Lit("/api/v1/workspaces/"), Self("workspace_slug"), Lit("/projects/"), Param("project_id"), Lit("/states/") >>,
          params |-> << "name", "color", "project_id" >>, kwargs |-> TRUE, bodyInit |-> << <<"name", "name">>, <<"color", "color">> >>,
          wrap |-> "none", filter |-> "kwargs", emptyCheck |-> FALSE, sendsBody |-> TRUE,
          shape |-> "none", style |-> "explicit", preAssign |-> FALSE, mapping |-> "StateMapping",
          onError |-> "PlaneError", message |-> "Error creating state" ],
      \* src/plane_py/api.py lines 336-387
      update_state |->
        [ kind |-> "State", verb |-> "update", method |-> "PATCH",
          path |-> << Lit("/api/v1/workspaces/"), Self("workspace_slug"), Lit("/projects/"), Param("project_id"), Lit("/states/"), Param("state_id"), Lit("/") >>,
          params |-> << "project_id", "state_id" >>, kwargs |-> TRUE, bodyInit |-> << >>,
          wrap |-> "none", filter |-> "kwargs", emptyCheck |-> TRUE, sendsBody |-> TRUE,
          shape |-> "none", style |-> "explicit", preAssign |-> FALSE, mapping |-> "StateMapping",
          onError |-> "PlaneError", message |-> "Error updating state" ],
      \* src/plane_py/api.py lines 389-412
      delete_state |->
        [ kind |-> "State", verb |-> "delete", method |-> "DELETE",
          path |-> << Lit("/api/v1/workspaces/"), Self("workspace_slug"), Lit("/projects/"), Param("project_id"), Lit("/states/"), Param("state_id"), Lit("/") >>,
          params |-> << "project_id", "state_id" >>, kwargs |-> FALSE, bodyInit |-> << >>,
          wrap |-> "none", filter |-> "none", emptyCheck |-> FALSE, sendsBody |-> FALSE,
          shape |-> "ignored", style |-> "none", preAssign |-> FALSE, mapping |-> "none",
          onError |-> "false", message |-> "" ] ]

ModuleOps ==
    [ \* src/plane_py/api.py lines 414-465
      get_modules |->
        [ kind |-> "Module", verb |-> "list", method |-> "GET",
          path |-> << Lit("/api/v1/workspaces/"), Self("workspace_slug"), Lit("/projects/"), Param("project_id"), Lit("/modules/") >>,
          params |-> << "project_id" >>, kwargs |-> FALSE, bodyInit |-> << >>,
          wrap |-> "none", filter |-> "none", emptyCheck |-> FALSE, sendsBody |-> FALSE,
          shape |-> "results", style |-> "explicit", preAssign |-> FALSE, mapping |-> "ModuleMapping",
          onError |-> "PlaneError", message |-> "Error fetching project modules" ],
      \* src/plane_py/api.py lines 467-510
      get_module_details |->
        [ kind |-> "Module", verb |-> "get", method |-> "GET",
          path |-> << Lit("/api/v1/workspaces/"), Self("workspace_slug"), Lit("/projects/"), Param("project_id"), Lit("/modules/"), Param("module_id") >>,
          params |-> << "project_id", "module_id" >>, kwargs |-> FALSE, bodyInit |-> << >>,
          wrap |-> "none", filter |-> "none", emptyCheck |-> FALSE, sendsBody |-> FALSE,
          shape |-> "dict_check", style |-> "explicit", preAssign |-> FALSE, mapping |-> "ModuleMapping",
          onError |-> "PlaneError", message |-> "Error fetching module details" ],
      \* src/plane_py/api.py lines 512-564
      create_module |->
        [ kind |-> "Module", verb |-> "create", method |-> "POST",
          path |-> << Lit("/api/v1/workspaces/"), Self("workspace_slug"), Lit("/projects/"), Param("project_id"), Lit("/modules/") >>,
          params |-> << "name", "project_id" >>, kwargs |-> TRUE, bodyInit |-> << <<"name", "name">> >>,
          wrap |-> "none", filter |-> "kwargs", emptyCheck |-> FALSE, sendsBody |-> TRUE,
          shape |-> "none", style |-> "explicit", preAssign |-> FALSE, mapping |-> "ModuleMapping",
          onError |-> "PlaneError", message |-> "Error creating module" ],
      \* src/plane_py/api.py lines 566-625
      update_module |->
        [ kind |-> "Module", verb |-> "update", method |-> "PATCH",
          path |-> << Lit("/api/v1/workspaces/"), Self("workspace_slug"), Lit("/projects/"), Param("project_id"), Lit("/modules/"), Param("module_id"), Lit("/") >>,
          params |-> << "name", "project_id", "module_id" >>, kwargs |-> TRUE, bodyInit |-> << <<"name", "name">> >>,
          wrap |-> "none", filter |-> "kwargs", emptyCheck |-> TRUE, sendsBody |-> TRUE,
          shape |-> "none", style |-> "explicit", preAssign |-> FALSE, mapping |-> "ModuleMapping",
          onError |-> "PlaneError", message |-> "Error updating module" ],
      \* src/plane_py/api.py lines 627-650
      delete_module |->
        [ kind |-> "Module", verb |-> "delete", method |-> "DELETE",
          path |-> << Lit("/api/v1/workspaces/"), Self("workspace_slug"), Lit("/projects/"), Param("project_id"), Lit("/modules/"), Param("module_id"), Lit("/") >>,
          params |-> << "project_id", "module_id" >>, kwargs |-> FALSE, bodyInit |-> << >>,
          wrap |-> "none", filter |-> "none", emptyCheck |-> FALSE, sendsBody |-> FALSE,
          shape |-> "ignored", style |-> "none", preAssign |-> FALSE, mapping |-> "none",
          onError |-> "false", message |-> "" ] ]

ModuleIssueOps ==
    [ \* src/plane_py/api.py lines 652-696
      get_module_issues |->
        [ kind |-> "ModuleIssue", verb |-> "list", method |-> "GET",
          path |-> << Lit("/api/v1/workspaces/"), Self("workspace_slug"), Lit("/projects/"), Param("project_id"), Lit("/modules/"), Param("module_id"), Lit("/module-issues/") >>,
          params |-> << "project_id", "module_id" >>, kwargs |-> FALSE, bodyInit |-> << >>,
          wrap |-> "none", filter |-> "none", emptyCheck |-> FALSE, sendsBody |-> FALSE,
          shape |-> "results", style |-> "explicit", preAssign |-> FALSE, mapping |-> "ModuleIssueListMapping",
          onError |-> "PlaneError", message |-> "Error fetching module issues" ],
      \* src/plane_py/api.py lines 698-750
      create_module_issue |->
        [ kind |-> "ModuleIssue", verb |-> "create", method |-> "POST",
          path |-> << Lit("/api/v1/workspaces/"), Self("workspace_slug"), Lit("/projects/"), Param("project_id"), Lit("/modules/"), Param("module_id"), Lit("/module-issues/") >>,
          params |-> << "issues", "project_id", "module_id" >>, kwargs |-> TRUE, bodyInit |-> << <<"issues", "issues">> >>,
          wrap |-> "none", filter |-> "kwargs", emptyCheck |-> FALSE, sendsBody |-> TRUE,
          shape |-> "first_of_list", style |-> "explicit", preAssign |-> FALSE, mapping |-> "ModuleIssueCreateMapping",
          onError |-> "PlaneError", message |-> "Error creating module issue" ],
      \* src/plane_py/api.py lines 752-776
      delete_module_issue |->
        [ kind |-> "ModuleIssue", verb |-> "delete", method |-> "DELETE",
          path |-> << Lit("/api/v1/workspaces/"), Self("workspace_slug"), Lit("/projects/"), Param("project_id"), Lit("/modules/"), Param("module_id"), Lit("/module-issues/"), Param("issue_id"), Lit("/") >>,
          params |-> << "project_id", "module_id", "issue_id" >>, kwargs |-> FALSE, bodyInit |-> << >>,
          wrap |-> "none", filter |-> "none", emptyCheck |-> FALSE, sendsBody |-> FALSE,
          shape |-> "ignored", style |-> "none", preAssign |-> FALSE, mapping |-> "none",
          onError |-> "false", message |-> "" ] ]

LinkOps ==
    [ \* src/plane_py/api.py lines 778-823
      get_links |->
        [ kind |-> "Link", verb |-> "list", method |-> "GET",
          path |-> << Lit("/api/v1/workspaces/"), Self("workspace_slug"), Lit("/projects/"), Param("project_id"), Lit("/issues/"), Param("issue_id"), Lit("/links/") >>,
          params |-> << "project_id", "issue_id" >>, kwargs |-> FALSE, bodyInit |-> << >>,
          wrap |-> "none", filter |-> "none", emptyCheck |-> FALSE, sendsBody |-> FALSE,
          shape |-> "results", style |-> "explicit", preAssign |-> FALSE, mapping |-> "LinkMapping",
          onError |-> "PlaneError", message |-> "Error fetching issue links" ],
      \* src/plane_py/api.py lines 825-862
      get_link_details |->
        [ kind |-> "Link", verb |-> "get", method |-> "GET",
          path |-> << Lit("/api/v1/workspaces/"), Self("workspace_slug"), Lit("/projects/"), Param("project_id"), Lit("/issues/"), Param("issue_id"), Lit("/links/"), Param("link_id") >>,
          params |-> << "project_id", "issue_id", "link_id" >>, kwargs |-> FALSE, bodyInit |-> << >>,
          wrap |-> "none", filter |-> "none", emptyCheck |-> FALSE, sendsBody |-> FALSE,
          shape |-> "dict_check", style |-> "explicit", preAssign |-> FALSE, mapping |-> "LinkMapping",
          onError |-> "PlaneError", message |-> "Error fetching link details" ],
      \* src/plane_py/api.py lines 864-910
      create_link |->
        [ kind |-> "Link", verb |-> "create", method |-> "POST",
          path |-> << Lit("/api/v1/workspaces/"), Self("workspace_slug"), Lit("/projects/"), Param("project_id"), Lit("/issues/"), Param("issue_id"), Lit("/links/") >>,
          params |-> << "url", "project_id", "issue_id" >>, kwargs |-> TRUE, bodyInit |-> << <<"url", "url">> >>,
          wrap |-> "none", filter |-> "kwargs", emptyCheck |-> FALSE, sendsBody |-> TRUE,
          shape |-> "none", style |-> "explicit", preAssign |-> FALSE, mapping |-> "LinkMapping",
          onError |-> "PlaneError", message |-> "Error creating link" ],
      \* src/plane_py/api.py lines 912-962
      update_link |->
        [ kind |-> "Link", verb |-> "update", method |-> "PATCH",
          path |-> << Lit("/api/v1/workspaces/"), Self("workspace_slug"), Lit("/projects/"), Param("project_id"), Lit("/issues/"), Param("issue_id"), Lit("/links/"), Param("link_id"), Lit("/") >>,
          params |-> << "project_id", "issue_id", "link_id" >>, kwargs |-> TRUE, bodyInit |-> << >>,
          wrap |-> "none", filter |-> "kwargs", emptyCheck |-> TRUE, sendsBody |-> TRUE,
          shape |-> "none", style |-> "explicit", preAssign |-> FALSE, mapping |-> "LinkMapping",
          onError |-> "PlaneError", message |-> "Error updating link" ],
      \* src/plane_py/api.py lines 964-988
      delete_link |->
        [ kind |-> "Link", verb |-> "delete", method |-> "DELETE",
          path |-> << Lit("/api/v1/workspaces/"), Self("workspace_slug"), Lit("/projects/"), Param("project_id"), Lit("/issues/"), Param("issue_id"), Lit("/links/"), Param("link_id"), Lit("/") >>,
          params |-> << "project_id", "issue_id", "link_id" >>, kwargs |-> FALSE, bodyInit |-> << >>,
          wrap |-> "none", filter |-> "none", emptyCheck |-> FALSE, sendsBody |-> FALSE,
          shape |-> "ignored", style |-> "none", preAssign |-> FALSE, mapping |-> "none",
          onError |-> "false", message |-> "" ] ]

LabelOps ==
    [ \* src/plane_py/api.py lines 990-1035
      get_labels |->
        [ kind |-> "Label", verb |-> "list", method |-> "GET",
          path |-> << Lit("/api/v1/workspaces/"), Self("workspace_slug"), Lit("/projects/"), Param("project_id"), Lit("/labels/") >>,
          params |-> << "project_id" >>, kwargs |-> FALSE, bodyInit |-> << >>,
          wrap |-> "none", filter |-> "none", emptyCheck |-> FALSE, sendsBody |-> FALSE,
          shape |-> "results", style |-> "explicit", preAssign |-> FALSE, mapping |-> "LabelMapping",
          onError |-> "PlaneError", message |-> "Error fetching project labels" ],
      \* src/plane_py/api.py lines 1037-1074
      get_label_details |->
        [ kind |-> "Label", verb |-> "get", method |-> "GET",
          path |-> << Lit("/api/v1/workspaces/"), Self("workspace_slug"), Lit("/projects/"), Param("project_id"), Lit("/labels/"), Param("label_id") >>,
          params |-> << "project_id", "label_id" >>, kwargs |-> FALSE, bodyInit |-> << >>,
          wrap |-> "none", filter |-> "none", emptyCheck |-> FALSE, sendsBody |-> FALSE,
          shape |-> "dict_check", style |-> "explicit", preAssign |-> FALSE, mapping |-> "LabelMapping",
          onError |-> "PlaneError", message |-> "Error fetching label details" ],
      \* src/plane_py/api.py lines 1076-1122
      create_label |->
        [ kind |-> "Label", verb |-> "create", method |-> "POST",
          path |-> << Lit("/api/v1/workspaces/"), Self("workspace_slug"), Lit("/projects/"), Param("project_id"), Lit("/labels/") >>,
          params |-> << "name", "project_id" >>, kwargs |-> TRUE, bodyInit |-> << <<"name", "name">> >>,
          wrap |-> "none", filter |-> "kwargs", emptyCheck |-> FALSE, sendsBody |-> TRUE,
          shape |-> "none", style |-> "explicit", preAssign |-> FALSE, mapping |-> "LabelMapping",
          onError |-> "PlaneError", message |-> "Error creating label" ],
      \* src/plane_py/api.py lines 1124-1177
      update_label |->
        [ kind |-> "Label", verb |-> "update", method |-> "PATCH",
          path |-> << Lit("/api/v1/workspaces/"), Self("workspace_slug"), Lit("/projects/"), Param("project_id"), Lit("/labels/"), Param("label_id"), Lit("/") >>,
          params |-> << "name", "project_id", "label_id" >>, kwargs |-> TRUE, bodyInit |-> << <<"name", "name">> >>,
          wrap |-> "none", filter |-> "kwargs", emptyCheck |-> TRUE, sendsBody |-> TRUE,
          shape |-> "none", style |-> "explicit", preAssign |-> FALSE, mapping |-> "LabelMapping",
          onError |-> "PlaneError", message |-> "Error updating label" ],
      \* src/plane_py/api.py lines 1179-1202
      delete_label |->
        [ kind |-> "Label", verb |-> "delete", method |-> "DELETE",
          path |-> << Lit("/api/v1/workspaces/"), Self("workspace_slug"), Lit("/projects/"), Param("project_id"), Lit("/labels/"), Param("label_id"), Lit("/") >>,
          params |-> << "project_id", "label_id" >>, kwargs |-> FALSE, bodyInit |-> << >>,
          wrap |-> "none", filter |-> "none", emptyCheck |-> FALSE, sendsBody |-> FALSE,
          shape |-> "ignored", style |-> "none", preAssign |-> FALSE, mapping |-> "none",
          onError |-> "false", message |-> "" ] ]

IssueOps ==
    [ \* src/plane_py/api.py lines 1204-1260
      get_issues |->
        [ kind |-> "Issue", verb |-> "list", method |-> "GET",
          path |-> << Lit("/api/v1/workspaces/"), Self("workspace_slug"), Lit("/projects/"), Param("project_id"), Lit("/issues/") >>,
          params |-> << "project_id" >>, kwargs |-> FALSE, bodyInit |-> << >>,
          wrap |-> "none", filter |-> "none", emptyCheck |-> FALSE, sendsBody |-> FALSE,
          shape |-> "results", style |-> "explicit", preAssign |-> FALSE, mapping |-> "IssueMapping",
          onError |-> "PlaneError", message |-> "Error fetching project issues" ],
      \* src/plane_py/api.py lines 1262-1310
      get_issue_details |->
        [ kind |-> "Issue", verb |-> "get", method |-> "GET",
          path |-> << Lit("/api/v1/workspaces/"), Self("workspace_slug"), Lit("/projects/"), Param("project_id"), Lit("/issues/"), Param("issue_id") >>,
          params |-> << "project_id", "issue_id" >>, kwargs |-> FALSE, bodyInit |-> << >>,
          wrap |-> "none", filter |-> "none", emptyCheck |-> FALSE, sendsBody |-> FALSE,
          shape |-> "dict_check", style |-> "explicit", preAssign |-> FALSE, mapping |-> "IssueMapping",
          onError |-> "PlaneError", message |-> "Error fetching issue details" ],
      \* src/plane_py/api.py lines 1312-1369
      create_issue |->
        [ kind |-> "Issue", verb |-> "create", method |-> "POST",
          path |-> << Lit("/api/v1/workspaces/"), Self("workspace_slug"), Lit("/projects/"), Param("project_id"), Lit("/issues/") >>,
          params |-> << "name", "project_id" >>, kwargs |-> TRUE, bodyInit |-> << <<"name", "name">> >>,
          wrap |-> "none", filter |-> "kwargs", emptyCheck |-> FALSE, sendsBody |-> TRUE,
          shape |-> "none", style |-> "explicit", preAssign |-> FALSE, mapping |-> "IssueMapping",
          onError |-> "PlaneError", message |-> "Error creating issue" ],
      \* src/plane_py/api.py lines 1371-1435
      update_issue |->
        [ kind |-> "Issue", verb |-> "update", method |-> "PATCH",
          path |-> << Lit("/api/v1/workspaces/"), Self("workspace_slug"), Lit("/projects/"), Param("project_id"), Lit("/issues/"), Param("issue_id"), Lit("/") >>,
          params |-> << "name", "project_id", "issue_id" >>, kwargs |-> TRUE, bodyInit |-> << <<"name", "name">> >>,
          wrap |-> "none", filter |-> "kwargs", emptyCheck |-> TRUE, sendsBody |-> TRUE,
          shape |-> "none", style |-> "explicit", preAssign |-> FALSE, mapping |-> "IssueMapping",
          onError |-> "PlaneError", message |-> "Error updating issue" ],
      \* src/plane_py/api.py lines 1437-1460
      delete_issue |->
        [ kind |-> "Issue", verb |-> "delete", method |-> "DELETE",
          path |-> << Lit("/api/v1/workspaces/"), Self("workspace_slug"), Lit("/projects/"), Param("project_id"), Lit("/issues/"), Param("issue_id"), Lit("/") >>,
          params |-> << "project_id", "issue_id" >>, kwargs |-> FALSE, bodyInit |-> << >>,
          wrap |-> "none", filter |-> "none", emptyCheck |-> FALSE, sendsBody |-> FALSE,
          shape |-> "ignored", style |-> "none", preAssign |-> FALSE, mapping |-> "none",
          onError |-> "false", message |-> "" ] ]

IssueCommentOps ==
    [ \* src/plane_py/api.py lines 1462-1510
      get_issue_comments |->
        [ kind |-> "IssueComment", verb |-> "list", method |-> "GET",
          path |-> << Lit("/api/v1/workspaces/"), Self("workspace_slug"), Lit("/projects/"), Param("project_id"), Lit("/issues/"), Param("issue_id"), Lit("/comments/") >>,
          params |-> << "project_id", "issue_id" >>, kwargs |-> FALSE, bodyInit |-> << >>,
          wrap |-> "none", filter |-> "none", emptyCheck |-> FALSE, sendsBody |-> FALSE,
          shape |-> "results", style |-> "explicit", preAssign |-> FALSE, mapping |-> "IssueCommentMapping",
          onError |-> "PlaneError", message |-> "Error fetching issue comments" ],
      \* src/plane_py/api.py lines 1512-1551
      get_comment_details |->
        [ kind |-> "IssueComment", verb |-> "get", method |-> "GET",
          path |-> << Lit("/api/v1/workspaces/"), Self("workspace_slug"), Lit("/projects/"), Param("project_id"), Lit("/issues/"), Param("issue_id"), Lit("/comments/"), Param("comment_id") >>,
          params |-> << "project_id", "issue_id", "comment_id" >>, kwargs |-> FALSE, bodyInit |-> << >>,
          wrap |-> "none", filter |-> "none", emptyCheck |-> FALSE, sendsBody |-> FALSE,
          shape |-> "dict_check", style |-> "explicit", preAssign |-> FALSE, mapping |-> "IssueCommentMapping",
          onError |-> "PlaneError", message |-> "Error fetching comment details" ],
      \* src/plane_py/api.py lines 1553-1602
      create_comment |->
        [ kind |-> "IssueComment", verb |-> "create", method |-> "POST",
          path |-> << Lit("/api/v1/workspaces/"), Self("workspace_slug"), Lit("/projects/"), Param("project_id"), Lit("/issues/"), Param("issue_id"), Lit("/comments/") >>,
          params |-> << "comment_html", "project_id", "issue_id" >>, kwargs |-> TRUE, bodyInit |-> << <<"comment_html", "comment_html">> >>,
          wrap |-> "none", filter |-> "kwargs", emptyCheck |-> FALSE, sendsBody |-> TRUE,
          shape |-> "none", style |-> "explicit", preAssign |-> FALSE, mapping |-> "IssueCommentMapping",
          onError |-> "PlaneError", message |-> "Error creating comment" ],
      \* src/plane_py/api.py lines 1604-1662
      update_comment |->
        [ kind |-> "IssueComment", verb |-> "update", method |-> "PATCH",
          path |-> << Lit("/api/v1/workspaces/"), Self("workspace_slug"), Lit("/projects/"), Param("project_id"), Lit("/issues/"), Param("issue_id"), Lit("/comments/"), Param("comment_id"), Lit("/") >>,
          params |-> << "comment_html", "project_id", "issue_id", "comment_id" >>, kwargs |-> TRUE, bodyInit |-> << <<"comment_html", "comment_html">> >>,
          wrap |-> "none", filter |-> "kwargs", emptyCheck |-> TRUE, sendsBody |-> TRUE,
          shape |-> "none", style |-> "explicit", preAssign |-> FALSE, mapping |-> "IssueCommentMapping",
          onError |-> "PlaneError", message |-> "Error updating comment" ],
      \* src/plane_py/api.py lines 1664-1688
      delete_comment |->
        [ kind |-> "IssueComment", verb |-> "delete", method |-> "DELETE",
          path |-> << Lit("/api/v1/workspaces/"), Self("workspace_slug"), Lit("/projects/"), Param("project_id"), Lit("/issues/"), Param("issue_id"), Lit("/comments/"), Param("comment_id"), Lit("/") >>,
          params |-> << "project_id", "issue_id", "comment_id" >>, kwargs |-> FALSE, bodyInit |-> << >>,
          wrap |-> "none", filter |-> "none", emptyCheck |-> FALSE, sendsBody |-> FALSE,
          shape |-> "ignored", style |-> "none", preAssign |-> FALSE, mapping |-> "none",
          onError |-> "false", message |-> "" ] ]

IssueActivityOps ==
    [ \* src/plane_py/api.py lines 1690-1741
      get_issue_activity |->
        [ kind |-> "IssueActivity", verb |-> "list", method |-> "GET",
          path |-> << Lit("/api/v1/workspaces/"), Self("workspace_slug"), Lit("/projects/"), Param("project_id"), Lit("/issues/"), Param("issue_id"), Lit("/activities/") >>,
          params |-> << "project_id", "issue_id" >>, kwargs |-> FALSE, bodyInit |-> << >>,
          wrap |-> "none", filter |-> "none", emptyCheck |-> FALSE, sendsBody |-> FALSE,
          shape |-> "results", style |-> "explicit", preAssign |-> FALSE, mapping |-> "IssueActivityMapping",
          onError |-> "PlaneError", message |-> "Error fetching issue activities" ],
      \* src/plane_py/api.py lines 1743-1785
      get_activity_details |->
        [ kind |-> "IssueActivity", verb |-> "get", method |-> "GET",
          path |-> << Lit("/api/v1/workspaces/"), Self("workspace_slug"), Lit("/projects/"), Param("project_id"), Lit("/issues/"), Param("issue_id"), Lit("/activities/"), Param("activity_id") >>,
          params |-> << "project_id", "issue_id", "activity_id" >>, kwargs |-> FALSE, bodyInit |-> << >>,
          wrap |-> "none", filter |-> "none", emptyCheck |-> FALSE, sendsBody |-> FALSE,
          shape |-> "dict_check", style |-> "explicit", preAssign |-> FALSE, mapping |-> "IssueActivityMapping",
          onError |-> "PlaneError", message |-> "Error fetching activity details" ] ]

CycleOps ==
    [ \* src/plane_py/api.py lines 1787-1834
      get_cycles |->
        [ kind |-> "Cycle", verb |-> "list", method |-> "GET",
          path |-> << Lit("/api/v1/workspaces/"), Self("workspace_slug"), Lit("/projects/"), Param("project_id"), Lit("/cycles/") >>,
          params |-> << "project_id" >>, kwargs |-> FALSE, bodyInit |-> << >>,
          wrap |-> "none", filter |-> "none", emptyCheck |-> FALSE, sendsBody |-> FALSE,
          shape |-> "results", style |-> "explicit", preAssign |-> FALSE, mapping |-> "CycleMapping",
          onError |-> "PlaneError", message |-> "Error fetching project cycles" ],
      \* src/plane_py/api.py lines 1836-1875
      get_cycle_details |->
        [ kind |-> "Cycle", verb |-> "get", method |-> "GET",
          path |-> << Lit("/api/v1/workspaces/"), Self("workspace_slug"), Lit("/projects/"), Param("project_id"), Lit("/cycles/"), Param("cycle_id") >>,
          params |-> << "project_id", "cycle_id" >>, kwargs |-> FALSE, bodyInit |-> << >>,
          wrap |-> "none", filter |-> "none", emptyCheck |-> FALSE, sendsBody |-> FALSE,
          shape |-> "dict_check", style |-> "explicit", preAssign |-> FALSE, mapping |-> "CycleMapping",
          onError |-> "PlaneError", message |-> "Error fetching cycle details" ],
      \* src/plane_py/api.py lines 1877-1925
      create_cycle |->
        [ kind |-> "Cycle", verb |-> "create", method |-> "POST",
          path |-> << Lit("/api/v1/workspaces/"), Self("workspace_slug"), Lit("/projects/"), Param("project_id"), Lit("/cycles/") >>,
          params |-> << "name", "project_id" >>, kwargs |-> TRUE, bodyInit |-> << <<"name", "name">> >>,
          wrap |-> "none", filter |-> "kwargs", emptyCheck |-> FALSE, sendsBody |-> TRUE,
          shape |-> "none", style |-> "explicit", preAssign |-> FALSE, mapping |-> "CycleMapping",
          onError |-> "PlaneError", message |-> "Error creating cycle" ],
      \* src/plane_py/api.py lines 1927-1982
      update_cycle |->
        [ kind |-> "Cycle", verb |-> "update", method |-> "PATCH",
          path |-> << Lit("/api/v1/workspaces/"), Self("workspace_slug"), Lit("/projects/"), Param("project_id"), Lit("/cycles/"), Param("cycle_id"), Lit("/") >>,
          params |-> << "name", "project_id", "cycle_id" >>, kwargs |-> TRUE, bodyInit |-> << <<"name", "name">> >>,
          wrap |-> "none", filter |-> "kwargs", emptyCheck |-> TRUE, sendsBody |-> TRUE,
          shape |-> "none", style |-> "explicit", preAssign |-> FALSE, mapping |-> "CycleMapping",
          onError |-> "PlaneError", message |-> "Error updating cycle" ],
      \* src/plane_py/api.py lines 1984-2007
      delete_cycle |->
        [ kind |-> "Cycle", verb |-> "delete", method |-> "DELETE",
          path |-> << Lit("/api/v1/workspaces/"), Self("workspace_slug"), Lit("/projects/"), Param("project_id"), Lit("/cycles/"), Param("cycle_id"), Lit("/") >>,
          params |-> << "project_id", "cycle_id" >>, kwargs |-> FALSE, bodyInit |-> << >>,
          wrap |-> "none", filter |-> "none", emptyCheck |-> FALSE, sendsBody |-> FALSE,
          shape |-> "ignored", style |-> "none", preAssign |-> FALSE, mapping |-> "none",
          onError |-> "false", message |-> "" ] ]

CycleIssueOps ==
    [ \* src/plane_py/api.py lines 2009-2053
      get_cycle_issues |->
        [ kind |-> "CycleIssue", verb |-> "list", method |-> "GET",
          path |-> << Lit("/api/v1/workspaces/"), Self("workspace_slug"), Lit("/projects/"), Param("project_id"), Lit("/cycles/"), Param("cycle_id"), Lit("/cycle-issues/") >>,
          params |-> << "project_id", "cycle_id" >>, kwargs |-> FALSE, bodyInit |-> << >>,
          wrap |-> "none", filter |-> "none", emptyCheck |-> FALSE, sendsBody |-> FALSE,
          shape |-> "results", style |-> "explicit", preAssign |-> FALSE, mapping |-> "CycleIssueListMapping",
          onError |-> "PlaneError", message |-> "Error fetching cycle issues" ],
      \* src/plane_py/api.py lines 2055-2107
      create_cycle_issue |->
        [ kind |-> "CycleIssue", verb |-> "create", method |-> "POST",
          path |-> << Lit("/api/v1/workspaces/"), Self("workspace_slug"), Lit("/projects/"), Param("project_id"), Lit("/cycles/"), Param("cycle_id"), Lit("/cycle-issues/") >>,
          params |-> << "issues", "project_id", "cycle_id" >>, kwargs |-> TRUE, bodyInit |-> << <<"issues", "issues">> >>,
          wrap |-> "none", filter |-> "kwargs", emptyCheck |-> FALSE, sendsBody |-> TRUE,
          shape |-> "first_of_list", style |-> "explicit", preAssign |-> FALSE, mapping |-> "CycleIssueCreateMapping",
          onError |-> "PlaneError", message |-> "Error creating cycle issue" ],
      \* src/plane_py/api.py lines 2109-2133
      delete_cycle_issue |->
        [ kind |-> "CycleIssue", verb |-> "delete", method |-> "DELETE",
          path |-> << Lit("/api/v1/workspaces/"), Self("workspace_slug"), Lit("/projects/"), Param("project_id"), Lit("/cycles/"), Param("cycle_id"), Lit("/cycle-issues/"), Param("issue_id"), Lit("/") >>,
          params |-> << "project_id", "cycle_id", "issue_id" >>, kwargs |-> FALSE, bodyInit |-> << >>,
          wrap |-> "none", filter |-> "none", emptyCheck |-> FALSE, sendsBody |-> FALSE,
          shape |-> "ignored", style |-> "none", preAssign |-> FALSE, mapping |-> "none",
          onError |-> "false", message |-> "" ] ]

IntakeIssueOps ==
    [ \* src/plane_py/api.py lines 2135-2180
      get_intake_issues |->
        [ kind |-> "IntakeIssue", verb |-> "list", method |-> "GET",
          path |-> << Lit("/api/v1/workspaces/"), Self("workspace_slug"), Lit("/projects/"), Param("project_id"), Lit("/cycles/") >>,
          params |-> << "project_id" >>, kwargs |-> FALSE, bodyInit |-> << >>,
          wrap |-> "none", filter |-> "none", emptyCheck |-> FALSE, sendsBody |-> FALSE,
          shape |-> "results", style |-> "explicit", preAssign |-> FALSE, mapping |-> "IntakeIssueMapping",
          onError |-> "PlaneError", message |-> "Error fetching project IntakeIssues" ],
      \* src/plane_py/api.py lines 2182-2219
      get_intake_issue_details |->
        [ kind |-> "IntakeIssue", verb |-> "get", method |-> "GET",
          path |-> << Lit("/api/v1/workspaces/"), Self("workspace_slug"), Lit("/projects/"), Param("project_id"), Lit("/intake-issues/"), Param("issue_id") >>,
          params |-> << "project_id", "issue_id" >>, kwargs |-> FALSE, bodyInit |-> << >>,
          wrap |-> "none", filter |-> "none", emptyCheck |-> FALSE, sendsBody |-> FALSE,
          shape |-> "dict_check", style |-> "explicit", preAssign |-> FALSE, mapping |-> "IntakeIssueMapping",
          onError |-> "PlaneError", message |-> "Error fetching issue details" ],
      \* src/plane_py/api.py lines 2221-2266
      create_intake_issue |->
        [ kind |-> "IntakeIssue", verb |-> "create", method |-> "POST",
          path |-> << Lit("/api/v1/workspaces/"), Self("workspace_slug"), Lit("/projects/"), Param("project_id"), Lit("/intake-issues/") >>,
          params |-> << "issue", "project_id" >>, kwargs |-> FALSE, bodyInit |-> << >>,
          wrap |-> "issue", filter |-> "issue", emptyCheck |-> FALSE, sendsBody |-> TRUE,
          shape |-> "none", style |-> "explicit", preAssign |-> FALSE, mapping |-> "IntakeIssueMapping",
          onError |-> "PlaneError", message |-> "Error creating IntakeIssue" ],
      \* src/plane_py/api.py lines 2268-2314
      update_intake_issue |->
        [ kind |-> "IntakeIssue", verb |-> "update", method |-> "PATCH",
          path |-> << Lit("/api/v1/workspaces/"), Self("workspace_slug"), Lit("/projects/"), Param("project_id"), Lit("/intake-issues/"), Param("issue_id") >>,
          params |-> << "issue", "project_id", "issue_id" >>, kwargs |-> FALSE, bodyInit |-> << >>,
          wrap |-> "issue", filter |-> "issue", emptyCheck |-> FALSE, sendsBody |-> TRUE,
          shape |-> "none", style |-> "explicit", preAssign |-> FALSE, mapping |-> "IntakeIssueMapping",
          onError |-> "PlaneError", message |-> "Error creating IntakeIssue" ],
      \* src/plane_py/api.py lines 2316-2340
      delete_intake_issue |->
        [ kind |-> "IntakeIssue", verb |-> "delete", method |-> "DELETE",
          path |-> << Lit("/api/v1/workspaces/"), Self("workspace_slug"), Lit("/projects/"), Param("project_id"), Lit("/intake-issues/"), Param("issue_id") >>,
          params |-> << "project_id", "intake_id", "issue_id" >>, kwargs |-> FALSE, bodyInit |-> << >>,
          wrap |-> "none", filter |-> "none", emptyCheck |-> FALSE, sendsBody |-> FALSE,
          shape |-> "ignored", style |-> "none", preAssign |-> FALSE, mapping |-> "none",
          onError |-> "false", message |-> "" ] ]

IssueTypeOps ==
    [ \* src/plane_py/api.py lines 2342-2393
      get_issue_types |->
        [ kind |-> "IssueType", verb |-> "list", method |-> "GET",
          path |-> << Lit("/api/v1/workspaces/"), Self("workspace_slug"), Lit("/projects/"), Param("project_id"), Lit("/issue-types/") >>,
          params |-> << "project_id" >>, kwargs |-> FALSE, bodyInit |-> << >>,
          wrap |-> "none", filter |-> "none", emptyCheck |-> FALSE, sendsBody |-> FALSE,
          shape |-> "results_or_list", style |-> "explicit", preAssign |-> FALSE, mapping |-> "IssueTypeMapping",
          onError |-> "PlaneError", message |-> "Error fetching project IssueTypes" ],
      \* src/plane_py/api.py lines 2395-2436
      get_type_details |->
        [ kind |-> "IssueType", verb |-> "get", method |-> "GET",
          path |-> << Lit("/api/v1/workspaces/"), Self("workspace_slug"), Lit("/projects/"), Param("project_id"), Lit("/issue-types/"), Param("type_id"), Lit("/") >>,
          params |-> << "project_id", "type_id" >>, kwargs |-> FALSE, bodyInit |-> << >>,
          wrap |-> "none", filter |-> "none", emptyCheck |-> FALSE, sendsBody |-> FALSE,
          shape |-> "dict_check", style |-> "explicit", preAssign |-> FALSE, mapping |-> "IssueTypeMapping",
          onError |-> "PlaneError", message |-> "Error fetching issue type details" ],
      \* src/plane_py/api.py lines 2438-2488
      create_type |->
        [ kind |-> "IssueType", verb |-> "create", method |-> "POST",
          path |-> << Lit("/api/v1/workspaces/"), Self("workspace_slug"), Lit("/projects/"), Param("project_id"), Lit("/issue-types/") >>,
          params |-> << "name", "project_id" >>, kwargs |-> TRUE, bodyInit |-> << <<"name", "name">> >>,
          wrap |-> "none", filter |-> "kwargs", emptyCheck |-> FALSE, sendsBody |-> TRUE,
          shape |-> "none", style |-> "explicit", preAssign |-> FALSE, mapping |-> "IssueTypeMapping",
          onError |-> "PlaneError", message |-> "Error creating issue type" ],
      \* src/plane_py/api.py lines 2490-2540
      update_type |->
        [ kind |-> "IssueType", verb |-> "update", method |-> "PATCH",
          path |-> << Lit("/api/v1/workspaces/"), Self("workspace_slug"), Lit("/projects/"), Param("project_id"), Lit("/issue-types/"), Param("type_id"), Lit("/") >>,
          params |-> << "name", "project_id", "type_id" >>, kwargs |-> TRUE, bodyInit |-> << <<"name", "name">> >>,
          wrap |-> "none", filter |-> "kwargs", emptyCheck |-> FALSE, sendsBody |-> TRUE,
          shape |-> "none", style |-> "explicit", preAssign |-> FALSE, mapping |-> "IssueTypeMapping",
          onError |-> "PlaneError", message |-> "Error creating issue type" ],
      \* src/plane_py/api.py lines 2542-2565
      delete_issue_type |->
        [ kind |-> "IssueType", verb |-> "delete", method |-> "DELETE",
          path |-> << Lit("/api/v1/workspaces/"), Self("workspace_slug"), Lit("/projects/"), Param("project_id"), Lit("/issue-types/"), Param("type_id"), Lit("/") >>,
          params |-> << "project_id", "type_id" >>, kwargs |-> FALSE, bodyInit |-> << >>,
          wrap |-> "none", filter |-> "none", emptyCheck |-> FALSE, sendsBody |-> FALSE,
          shape |-> "ignored", style |-> "none", preAssign |-> FALSE, mapping |-> "none",
          onError |-> "false", message |-> "" ] ]

IssuePropertyOps ==
    [ \* src/plane_py/api.py lines 2567-2605
      get_issue_properties |->
        [ kind |-> "IssueProperty", verb |-> "list", method |-> "GET",
          path |-> << Lit("/api/v1/workspaces/"), Self("workspace_slug"), Lit("/projects/"), Param("project_id"), Lit("/issue-types/"), Param("type_id"), Lit("/issue-properties/") >>,
          params |-> << "project_id", "type_id" >>, kwargs |-> FALSE, bodyInit |-> << >>,
          wrap |-> "none", filter |-> "none", emptyCheck |-> FALSE, sendsBody |-> FALSE,
          shape |-> "results_or_list", style |-> "filter", preAssign |-> FALSE, mapping |-> "none",
          onError |-> "PlaneError", message |-> "Error fetching project IssueProperties" ],
      \* src/plane_py/api.py lines 2607-2629
      get_property_details |->
        [ kind |-> "IssueProperty", verb |-> "get", method |-> "GET",
          path |-> << Lit("/api/v1/workspaces/"), Self("workspace_slug"), Lit("/projects/"), Param("project_id"), Lit("/issue-types/"), Param("type_id"), Lit("/issue-properties/"), Param("property_id"), Lit("/") >>,
          params |-> << "project_id", "type_id", "property_id" >>, kwargs |-> FALSE, bodyInit |-> << >>,
          wrap |-> "none", filter |-> "none", emptyCheck |-> FALSE, sendsBody |-> FALSE,
          shape |-> "none", style |-> "filter", preAssign |-> FALSE, mapping |-> "none",
          onError |-> "PlaneError", message |-> "Error fetching project IssueProperty" ],
      \* src/plane_py/api.py lines 2631-2674
      update_property |->
        [ kind |-> "IssueProperty", verb |-> "update", method |-> "PATCH",
          path |-> << Lit("/api/v1/workspaces/"), Self("workspace_slug"), Lit("/projects/"), Param("project_id"), Lit("/issue-types/"), Param("type_id"), Lit("/issue-properties/"), Param("property_id"), Lit("/") >>,
          params |-> << "name", "project_id", "type_id", "property_id" >>, kwargs |-> TRUE, bodyInit |-> << <<"display_name", "name">> >>,
          wrap |-> "none", filter |-> "kwargs_not_name", emptyCheck |-> TRUE, sendsBody |-> TRUE,
          shape |-> "none", style |-> "filter", preAssign |-> FALSE, mapping |-> "none",
          onError |-> "PlaneError", message |-> "Error updating property" ],
      \* src/plane_py/api.py lines 2676-2712
      create_property |->
        [ kind |-> "IssueProperty", verb |-> "create", method |-> "POST",
          path |-> << Lit("/api/v1/workspaces/"), Self("workspace_slug"), Lit("/projects/"), Param("project_id"), Lit("/issue-types/"), Param("type_id"), Lit("/issue-properties/") >>,
          params |-> << "name", "type_id", "project_id" >>, kwargs |-> TRUE, bodyInit |-> << <<"display_name", "name">> >>,
          wrap |-> "none", filter |-> "kwargs_not_name", emptyCheck |-> FALSE, sendsBody |-> TRUE,
          shape |-> "none", style |-> "filter", preAssign |-> FALSE, mapping |-> "none",
          onError |-> "PlaneError", message |-> "Error creating property" ],
      \* src/plane_py/api.py lines 2714-2736
      delete_property |->
        [ kind |-> "IssueProperty", verb |-> "delete", method |-> "DELETE",
          path |-> << Lit("/api/v1/workspaces/"), Self("workspace_slug"), Lit("/projects/"), Param("project_id"), Lit("/issue-types/"), Param("type_id"), Lit("/issue-properties/"), Param("property_id"), Lit("/") >>,
          params |-> << "project_id", "type_id", "property_id" >>, kwargs |-> FALSE, bodyInit |-> << >>,
          wrap |-> "none", filter |-> "none", emptyCheck |-> FALSE, sendsBody |-> FALSE,
          shape |-> "ignored", style |-> "none", preAssign |-> FALSE, mapping |-> "none",
          onError |-> "false", message |-> "" ] ]

PropertyOptionOps ==
    [ \* src/plane_py/api.py lines 2738-2776
      get_property_options |->
        [ kind |-> "PropertyOption", verb |-> "list", method |-> "GET",
          path |-> << Lit("/api/v1/workspaces/"), Self("workspace_slug"), Lit("/projects/"), Param("project_id"), Lit("/issue-properties/"), Param("property_id"), Lit("/options/") >>,
          params |-> << "project_id", "property_id" >>, kwargs |-> FALSE, bodyInit |-> << >>,
          wrap |-> "none", filter |-> "none", emptyCheck |-> FALSE, sendsBody |-> FALSE,
          shape |-> "results_or_list", style |-> "filter", preAssign |-> FALSE, mapping |-> "none",
          onError |-> "PlaneError", message |-> "Error fetching project PropertyOptions" ],
      \* src/plane_py/api.py lines 2778-2806
      get_option_details |->
        [ kind |-> "PropertyOption", verb |-> "get", method |-> "GET",
          path |-> << Lit("/api/v1/workspaces/"), Self("workspace_slug"), Lit("/projects/"), Param("project_id"), Lit("/issue-properties/"), Param("property_id"), Lit("/options/") >>,
          params |-> << "project_id", "property_id", "option_id" >>, kwargs |-> FALSE, bodyInit |-> << >>,
          wrap |-> "none", filter |-> "none", emptyCheck |-> FALSE, sendsBody |-> FALSE,
          shape |-> "find_by_id", style |-> "filter", preAssign |-> FALSE, mapping |-> "none",
          onError |-> "PlaneError", message |-> "Error fetching project PropertyOption" ],
      \* src/plane_py/api.py lines 2808-2844
      create_option |->
        [ kind |-> "PropertyOption", verb |-> "create", method |-> "POST",
          path |-> << Lit("/api/v1/workspaces/"), Self("workspace_slug"), Lit("/projects/"), Param("project_id"), Lit("/issue-properties/"), Param("property_id"), Lit("/options/") >>,
          params |-> << "name", "property_id", "project_id" >>, kwargs |-> TRUE, bodyInit |-> << <<"name", "name">> >>,
          wrap |-> "none", filter |-> "kwargs", emptyCheck |-> FALSE, sendsBody |-> TRUE,
          shape |-> "none", style |-> "filter", preAssign |-> FALSE, mapping |-> "none",
          onError |-> "PlaneError", message |-> "Error creating option" ],
      \* src/plane_py/api.py lines 2846-2888
      update_option |->
        [ kind |-> "PropertyOption", verb |-> "update", method |-> "PATCH",
          path |-> << Lit("/api/v1/workspaces/"), Self("workspace_slug"), Lit("/projects/"), Param("project_id"), Lit("/issue-properties/"), Param("property_id"), Lit("/options/"), Param("option_id"), Lit("/") >>,
          params |-> << "name", "project_id", "option_id", "property_id" >>, kwargs |-> TRUE, bodyInit |-> << <<"name", "name">> >>,
          wrap |-> "none", filter |-> "kwargs", emptyCheck |-> TRUE, sendsBody |-> TRUE,
          shape |-> "none", style |-> "filter", preAssign |-> FALSE, mapping |-> "none",
          onError |-> "PlaneError", message |-> "Error updating option" ],
      \* src/plane_py/api.py lines 2890-2912
      delete_option |->
        [ kind |-> "PropertyOption", verb |-> "delete", method |-> "DELETE",
          path |-> << Lit("/api/v1/workspaces/"), Self("workspace_slug"), Lit("/projects/"), Param("project_id"), Lit("/issue-properties/"), Param("property_id"), Lit("/options/"), Param("option_id"), Lit("/") >>,
          params |-> << "project_id", "property_id", "option_id" >>, kwargs |-> FALSE, bodyInit |-> << >>,
          wrap |-> "none", filter |-> "none", emptyCheck |-> FALSE, sendsBody |-> FALSE,
          shape |-> "ignored", style |-> "none", preAssign |-> FALSE, mapping |-> "none",
          onError |-> "false", message |-> "" ] ]

PropertyValueOps ==
    [ \* src/plane_py/api.py lines 2914-2953
      get_property_values |->
        [ kind |-> "PropertyValue", verb |-> "list", method |-> "GET",
          path |-> << Lit("/api/v1/workspaces/"), Self("workspace_slug"), Lit("/projects/"), Param("project_id"), Lit("/issues/"), Param("issue_id"), Lit("/issue-properties/"), Param("property_id"), Lit("/values/") >>,
          params |-> << "project_id", "issue_id", "property_id" >>, kwargs |-> FALSE, bodyInit |-> << >>,
          wrap |-> "none", filter |-> "none", emptyCheck |-> FALSE, sendsBody |-> FALSE,
          shape |-> "results_or_list", style |-> "filter", preAssign |-> FALSE, mapping |-> "none",
          onError |-> "PlaneError", message |-> "Error fetching project PropertyValues" ],
      \* src/plane_py/api.py lines 2955-2990
      create_value |->
        [ kind |-> "PropertyValue", verb |-> "create", method |-> "POST",
          path |-> << Lit("/api/v1/workspaces/"), Self("workspace_slug"), Lit("/projects/"), Param("project_id"), Lit("/issues/"), Param("issue_id"), Lit("/issue-properties/"), Param("property_id"), Lit("/values/") >>,
          params |-> << "property_id", "project_id", "issue_id", "values" >>, kwargs |-> FALSE, bodyInit |-> << <<"values", "values">> >>,
          wrap |-> "none", filter |-> "none", emptyCheck |-> FALSE, sendsBody |-> TRUE,
          shape |-> "none", style |-> "filter", preAssign |-> FALSE, mapping |-> "none",
          onError |-> "PlaneError", message |-> "Error creating value" ] ]

OpTable ==
    ProjectOps @@ StateOps @@ ModuleOps @@ ModuleIssueOps @@ LinkOps @@ LabelOps @@ IssueOps
    @@ IssueCommentOps @@ IssueActivityOps @@ CycleOps @@ CycleIssueOps
    @@ IntakeIssueOps @@ IssueTypeOps @@ IssuePropertyOps @@ PropertyOptionOps @@ PropertyValueOps

\* ---------------------------------------------------------------------------
\* Python built-ins the mappings call
\* ---------------------------------------------------------------------------
\* Text of float(x) for the numeric texts that occur.
FloatText ==
    ("0" :> "0.0") @@ ("1" :> "1.0") @@ ("0.0" :> "0.0") @@ ("1.0" :> "1.0")
    @@ ("1.5" :> "1.5")

\* Text of int(x) for a number (a float is truncated).
IntText ==
    ("0" :> "0") @@ ("1" :> "1") @@ ("0.0" :> "0") @@ ("1.0" :> "1")
    @@ ("1.5" :> "1")

\* float(x): numbers and numeric strings convert, any other string is a
\* ValueError, None and containers are a TypeError.
PyFloat(x) ==
    CASE x.t \in {"int", "float"} -> Ok(JFloat(FloatText[x.v]))
      [] x.t = "bool" -> Ok(JFloat(IF x.v = "True" THEN "1.0" ELSE "0.0"))
      [] x.t = "str" -> IF x.v \in DOMAIN FloatText
                           THEN Ok(JFloat(FloatText[x.v]))
                           ELSE Err("ValueError")
      [] OTHER -> Err("TypeError")

\* int(x): numbers convert (floats truncate), a string converts only when it
\* is an integer literal, None and containers are a TypeError.
PyInt(x) ==
    CASE x.t \in {"int", "float"} -> Ok(JInt(IntText[x.v]))
      [] x.t = "bool" -> Ok(JInt(IF x.v = "True" THEN "1" ELSE "0"))
      [] x.t = "str" -> IF x.v \in {"0", "1"}
                           THEN Ok(JInt(x.v))
                           ELSE Err("ValueError")
      [] OTHER -> Err("TypeError")

\* Variant: a str() that leaves its argument as it is.
PyStrIdentity(x) == Ok(x)

\* str(x) never fails: it is the text of the value.
PyStr(x) ==
    IF x.t \in {"str", "int", "float", "bool", "null"}
       THEN Ok(JStr(x.v))
       ELSE Ok(JStr("<repr>"))

Conv(c, x) ==
    CASE c = "float" -> PyFloat(x)
      [] c = "int" -> PyInt(x)
      [] c = "str" -> PyStr(x)
      [] OTHER -> Ok(x)

\* Truth value of a JSON value (if not x).
Falsy(x) ==
    \/ x.t = "null"
    \/ x.t = "obj" /\ DOMAIN x.o = {}
    \/ x.t = "arr" /\ x.l = <<>>
    \/ x.t = "str" /\ x.v = ""
    \/ x.t = "bool" /\ x.v = "False"
    \/ x.t \in {"int", "float"} /\ x.v \in {"0", "0.0"}

\* Some enumeration of a finite set as a sequence.
RECURSIVE SeqOf(_)
SeqOf(S) ==
    IF S = {} THEN <<>>
    ELSE LET x == CHOOSE y \in S : TRUE IN <<x>> \o SeqOf(S \ {x})

\* for item in x: the elements of a list, the keys of a dict, the characters
\* of a string (every one of them a string; a non-empty string is represented
\* by one such element); anything else is not iterable.
IterItems(x) ==
    CASE x.t = "arr" -> Ok(x.l)
      [] x.t = "obj" -> Ok([i \in 1..Cardinality(DOMAIN x.o) |->
                               JStr(SeqOf(DOMAIN x.o)[i])])
      [] x.t = "str" -> Ok(IF x.v = "" THEN <<>> ELSE <<JStr(x.v)>>)
      [] OTHER -> Err("TypeError")

\* ---------------------------------------------------------------------------
\* Dataclasses
\* ---------------------------------------------------------------------------
Kinds == DOMAIN Schema

NamesOf(sch) == {sch[i].name : i \in DOMAIN sch}

FieldIn(sch, f) == sch[CHOOSE i \in DOMAIN sch : sch[i].name = f]

\* Kind.__annotations__.keys()
FieldNames(kind) == NamesOf(Schema[kind])

\* The __init__ a dataclass with the fields sch generates: an unknown keyword
\* and a missing argument without default are a TypeError; no value is
\* checked against its annotation.
DataclassInit(sch, kind, kw) ==
    IF \/ (DOMAIN kw) \ NamesOf(sch) # {}
       \/ \E i \in DOMAIN sch : ~sch[i].hasDefault /\ sch[i].name \notin DOMAIN kw
       THEN Err("TypeError")
       ELSE Ok(Rec(kind, [f \in NamesOf(sch) |->
                            IF f \in DOMAIN kw THEN kw[f] ELSE FieldIn(sch, f).default]))

\* Kind(**kw)
Construct(kind, kw) == DataclassInit(Schema[kind], kind, kw)

\* Variant: every keyword argument is looked up in the response object.
EvalEntryFromData(e, data, slug) ==
    Conv(e.conv, IF e.field \in DOMAIN data.o THEN data.o[e.field]
                 ELSE IF e.src = "slug" THEN JStr("") ELSE e.dflt)

\* One keyword argument of a hand-written constructor call.
EvalEntry(e, data, slug) ==
    IF e.src = "slug" THEN Ok(JStr(slug))
    ELSE Conv(e.conv, IF e.field \in DOMAIN data.o THEN data.o[e.field] ELSE e.dflt)

\* The keyword arguments of a hand-written constructor call
\* Kind(f1=data.get(...), ...): they are evaluated in order, the first
\* failing one raises.
ExplicitArgs(m, data, slug) ==
    LET bad == {i \in DOMAIN m : ~EvalEntry(m[i], data, slug).ok}
    IN IF bad # {}
          THEN Err(EvalEntry(m[CHOOSE i \in bad : \A j \in bad : i <= j], data, slug).exc)
          ELSE Ok([f \in {m[i].field : i \in DOMAIN m} |->
                     EvalEntry(m[CHOOSE i \in DOMAIN m : m[i].field = f], data, slug).val])

\* Variant: the whole response object is passed to the constructor.
CtorArgsUnfiltered(op, data, slug) ==
    IF data.t # "obj" THEN Err("AttributeError")
    ELSE IF op.style = "filter" THEN Ok(data.o)
    ELSE ExplicitArgs(Mappings[op.mapping], data, slug)

\* The keyword arguments a method passes to the constructor for one response
\* object: the whitelisted entries of the object ({k: v for k, v in
\* data.items() if k in valid_fields}), or the hand-written ones.  data.items
\* and data.get on anything but a dict are an AttributeError.
CtorArgs(op, data, slug) ==
    IF data.t # "obj" THEN Err("AttributeError")
    ELSE IF op.style = "filter" THEN Ok(Restrict(data.o, FieldNames(op.kind)))
    ELSE ExplicitArgs(Mappings[op.mapping], data, slug)

ConstructFrom(kind, kw) == IF ~kw.ok THEN kw ELSE Construct(kind, kw.val)

\* The constructor call of a method for one response object.
MapCtor(op, data, slug) == ConstructFrom(op.kind, CtorArgs(op, data, slug))

\* state_data['workspace_slug'] = self.workspace_slug of get_states: item
\* assignment on anything but a dict is a TypeError.
MapPre(op, data) ==
    IF op.preAssign /\ data.t # "obj" THEN Err("TypeError") ELSE Ok(data)

\* The statements that turn one response object into a record.
MapOne(op, data, slug) ==
    IF ~MapPre(op, data).ok THEN MapPre(op, data) ELSE MapCtor(op, data, slug)

\* Variant: a loop that puts each record in front of those already built.
LoopStepPrepends(pre, r, rest) ==
    IF ~pre.ok THEN pre
    ELSE IF ~r.ok /\ r.exc # "TypeError" THEN r
    ELSE IF ~rest.ok THEN rest
    ELSE IF r.ok THEN Ok(rest.val \o <<r.val>>)
    ELSE rest

\* One round of the loop of a list method, given the outcome of the
\* statements before the inner try (pre), of the constructor call inside it
\* (r) and of the rounds that follow (rest): an element whose constructor
\* raises TypeError is skipped (except TypeError: continue), any other
\* exception leaves the loop.
LoopStep(pre, r, rest) ==
    IF ~pre.ok THEN pre
    ELSE IF ~r.ok /\ r.exc # "TypeError" THEN r
    ELSE IF ~rest.ok THEN rest
    ELSE IF r.ok THEN Ok(<<r.val>> \o rest.val)
    ELSE rest

RECURSIVE MapItems(_, _, _)
MapItems(op, items, slug) ==
    IF items = <<>> THEN Ok(<<>>)
    ELSE LoopStep(MapPre(op, Head(items)),
                  MapCtor(op, Head(items), slug),
                  MapItems(op, Tail(items), slug))

\* next((opt for opt in response if opt.get('id') == option_id), None)
RECURSIVE FindById(_, _)
FindById(items, id) ==
    IF items = <<>> THEN Ok(JNull)
    ELSE IF Head(items).t # "obj" THEN Err("AttributeError")
    ELSE IF (IF "id" \in DOMAIN Head(items).o THEN Head(items).o["id"] ELSE JNull) = id
            THEN Ok(Head(items))
    ELSE FindById(Tail(items), id)

\* ---------------------------------------------------------------------------
\* The part of a method that runs before its await
\* ---------------------------------------------------------------------------
Ops == DOMAIN OpTable

\* How a call of a public method ends.  cause is the exception the method's
\* own handler caught (it is logged, never re-raised).
Return(v, c) == [kind |-> "return", exc |-> "none", msg |-> "", cause |-> c, val |-> v]

Raise(e, m, c) == [kind |-> "raise", exc |-> e, msg |-> m, cause |-> c, val |-> JNull]

NoOutcome == [kind |-> "none", exc |-> "none", msg |-> "", cause |-> "none", val |-> JNull]

\* Python binds the arguments before the body runs: a named parameter without
\* a value, or a keyword the signature does not take, is a TypeError.
BindsArgs(op, args) ==
    /\ Range(op.params) = DOMAIN args.pos
    /\ (op.kwargs \/ DOMAIN args.kw = {})

\* Variant: filtered_data starts empty.
BodyInitEmpty(op, args) == EmptyMap

\* Variant: the body starts from the named parameters under their own names.
BodyInitByParameter(op, args) ==
    [k \in {op.bodyInit[i][2] : i \in DOMAIN op.bodyInit} |-> args.pos[k]]

\* The literal filtered_data starts from.
BodyInit(op, args) ==
    [k \in {op.bodyInit[i][1] : i \in DOMAIN op.bodyInit} |->
       args.pos[(op.bodyInit[CHOOSE i \in DOMAIN op.bodyInit : op.bodyInit[i][1] = k])[2]]]

\* The caller-supplied entries that pass "if k in valid_fields".
FilteredKwargs(op, args) ==
    CASE op.filter = "kwargs" -> Restrict(args.kw, FieldNames(op.kind))
      [] op.filter = "kwargs_not_name" ->
           Restrict(args.kw, FieldNames(op.kind) \ {"name"})
      [] OTHER -> EmptyMap

\* filtered_data of create_intake_issue / update_intake_issue.
IssueBody(op, args) ==
    LET issue == args.pos["issue"].o
        name == IF "name" \in DOMAIN issue THEN issue["name"] ELSE JStr("N/A")
    IN ("issue" :> JObj(Restrict(issue, FieldNames(op.kind)) @@ ("name" :> name)))

\* filtered_data as it stands when the method reaches its try block
\* (dict.update: a filtered keyword replaces an initial entry of the same key).
FilteredData(op, args) ==
    IF op.wrap = "issue" THEN IssueBody(op, args)
    ELSE FilteredKwargs(op, args) @@ BodyInit(op, args)

\* The endpoint f-string, as the sequence of its rendered segments.
Endpoint(op, args, cl) ==
    [i \in DOMAIN op.path |->
       CASE op.path[i].k = "lit" -> op.path[i].s
         [] op.path[i].k = "self" -> cl.workspace_slug
         [] OTHER -> args.pos[op.path[i].s].v]

\* Variant: a _request that sends no x-api-key header.
BuildRequestWithoutKey(op, args, cl) ==
    [method |-> op.method,
     url |-> <<cl.base_url>> \o Endpoint(op, args, cl),
     headers |-> EmptyMap,
     body |-> IF op.sendsBody THEN JObj(FilteredData(op, args)) ELSE NoBody]

\* What _request puts on the wire: url = base_url + endpoint, the x-api-key
\* header, and the json= argument when the method passes one.
BuildRequest(op, args, cl) ==
    [method |-> op.method,
     url |-> <<cl.base_url>> \o Endpoint(op, args, cl),
     headers |-> ("x-api-key" :> cl.api_token),
     body |-> IF op.sendsBody THEN JObj(FilteredData(op, args)) ELSE NoBody]

NoRequest == [method |-> "none", url |-> <<>>, headers |-> EmptyMap, body |-> NoBody]

\* The failure, if any, with which the method ends before its try block.
PreFailure(op, args) ==
    IF ~BindsArgs(op, args) THEN Raise("TypeError", "", "none")
    ELSE IF op.wrap = "issue" /\ args.pos["issue"].t # "obj"
            THEN Raise("AttributeError", "", "none")
    ELSE IF op.emptyCheck /\ DOMAIN FilteredData(op, args) = {}
            THEN Raise("ValueError", "No valid fields provided for update", "none")
    ELSE NoOutcome

\* ---------------------------------------------------------------------------
\* _request after the response arrived
\* ---------------------------------------------------------------------------
NoResponse == [fault |-> FALSE, status |-> 0, body |-> NoBody]

TransportFault == [fault |-> TRUE, status |-> 0, body |-> NoBody]

\* Variant: a _request that takes no status but 200 for a success.
RequestResultOnly200(r) ==
    IF r.fault THEN Err("ClientConnectionError")
    ELSE IF r.status # 200 THEN Err("ClientResponseError")
    ELSE IF r.body.t = "nonjson" THEN Err("ContentTypeError")
    ELSE Ok(r.body)

\* Variant: a _request without the test for 204, which parses every body.
RequestResultParses204(r) ==
    IF r.fault THEN Err("ClientConnectionError")
    ELSE IF r.status >= 400 THEN Err("ClientResponseError")
    ELSE IF r.body.t = "nonjson" THEN Err("ContentTypeError")
    ELSE Ok(r.body)

\* What the ClientResponseError of raise_for_status() carries of the
\* response: its status (and reason and headers), not its body.
RaisedCarries(r) == [status |-> r.status, body |-> NoBody]

\* raise_for_status() raises for every status from 400 up, so the 404 test
\* below it is reached only with a status below 400.
RequestResult(r) ==
    IF r.fault THEN Err("ClientConnectionError")
    ELSE IF r.status >= 400 THEN Err("ClientResponseError")
    ELSE IF r.status = 204 THEN Ok(JNull)
    ELSE IF r.status = 404 THEN Err("NotFoundError")
    ELSE IF r.body.t = "nonjson" THEN Err("ContentTypeError")
    ELSE Ok(r.body)

\* ---------------------------------------------------------------------------
\* The try block of a method after its await
\* ---------------------------------------------------------------------------
\* Variant: a shape test that accepts the results envelope only.
ListSourceResultsOnly(op, r) ==
    IF r.t = "obj" /\ "results" \in DOMAIN r.o THEN Ok(r.o["results"])
    ELSE Err("ValueError")

\* The list a list method iterates over.
ListSource(op, r) ==
    IF r.t = "obj" /\ "results" \in DOMAIN r.o THEN Ok(r.o["results"])
    ELSE IF op.shape = "results_or_list" /\ r.t = "arr" THEN Ok(r)
    ELSE Err("ValueError")

IterFrom(src) == IF ~src.ok THEN src ELSE IterItems(src.val)

MapItemsFrom(op, items, slug) ==
    IF ~items.ok THEN items ELSE MapItems(op, items.val, slug)

ListOf(recs) == IF ~recs.ok THEN recs ELSE Ok(JArr(recs.val))

ListBody(op, r, slug) ==
    ListOf(MapItemsFrom(op, IterFrom(ListSource(op, r)), slug))

\* Variant: a list response stands for its last element.
FirstOfListTakesLast(r) ==
    IF r.t = "arr"
       THEN IF r.l = <<>> THEN Err("ValueError") ELSE Ok(r.l[Len(r.l)])
       ELSE Ok(r)

\* create_module_issue / create_cycle_issue: a list response stands for its
\* first element, an empty list is a ValueError.
FirstOfList(r) ==
    IF r.t = "arr"
       THEN IF r.l = <<>> THEN Err("ValueError") ELSE Ok(r.l[1])
       ELSE Ok(r)

FindByIdFrom(items, id) == IF ~items.ok THEN items ELSE FindById(items.val, id)

\* "if not option: raise PlaneError(...)", raised inside the try block.
FoundOrRaise(hit) ==
    IF ~hit.ok THEN hit ELSE IF Falsy(hit.val) THEN Err("PlaneError") ELSE hit

\* get_option_details: the option is looked up by id in the fetched
\* collection.
FindOption(r, args) ==
    FoundOrRaise(FindByIdFrom(IterItems(r), args.pos["option_id"]))

\* The response object a get / create / update method maps.
SingleData(op, r, args) ==
    CASE op.shape = "dict_check" -> IF r.t = "obj" THEN Ok(r) ELSE Err("ValueError")
      [] op.shape = "first_of_list" -> FirstOfList(r)
      [] op.shape = "find_by_id" -> FindOption(r, args)
      [] OTHER -> Ok(r)

MapOneFrom(op, data, slug) == IF ~data.ok THEN data ELSE MapOne(op, data.val, slug)

\* Variant: the record takes its name from the arguments of the call.
EchoName(m, args) ==
    IF m.ok /\ "name" \in DOMAIN args.pos /\ "name" \in DOMAIN m.val.o
       THEN Ok(Rec(m.val.kind, ("name" :> args.pos["name"]) @@ m.val.o))
       ELSE m

SingleBodyEchoesRequest(op, r, args, slug) ==
    EchoName(MapOneFrom(op, SingleData(op, r, args), slug), args)

SingleBody(op, r, args, slug) == MapOneFrom(op, SingleData(op, r, args), slug)

\* The statements of the try block after the await.
TryBody(op, r, args, slug) ==
    CASE op.verb = "list" -> ListBody(op, r, slug)
      [] op.verb = "delete" -> Ok(JBool("True"))
      [] OTHER -> SingleBody(op, r, args, slug)

\* The whole try block: _request, then the statements after it.
TryBlock(op, rq, args, slug) ==
    IF ~rq.ok THEN rq ELSE TryBody(op, rq.val, args, slug)

\* Variants of the handler, for checking that the properties below tell them
\* from the handler of the code: a delete that re-raises, a get_projects that
\* re-raises, a list method that answers with an empty list, and a handler
\* that lets the original exception through.
HandlerDeleteRaises(op, e) ==
    CASE op.onError = "empty_list" -> Return(JArr(<<>>), e)
      [] OTHER -> Raise("PlaneError", op.message, e)

HandlerProjectsRaise(op, e) ==
    CASE op.onError = "false" -> Return(JBool("False"), e)
      [] OTHER -> Raise("PlaneError", op.message, e)

HandlerListsEmpty(op, e) ==
    CASE op.verb = "list" -> Return(JArr(<<>>), e)
      [] op.onError = "false" -> Return(JBool("False"), e)
      [] OTHER -> Raise("PlaneError", op.message, e)

HandlerReraises(op, e) ==
    CASE op.onError = "empty_list" -> Return(JArr(<<>>), e)
      [] op.onError = "false" -> Return(JBool("False"), e)
      [] OTHER -> Raise(e, op.message, e)

\* The except Exception handler of the method.
Handler(op, e) ==
    CASE op.onError = "empty_list" -> Return(JArr(<<>>), e)
      [] op.onError = "false" -> Return(JBool("False"), e)
      [] OTHER -> Raise("PlaneError", op.message, e)

Settle(op, b) == IF b.ok THEN Return(b.val, "none") ELSE Handler(op, b.exc)

\* The outcome of the method, given what the network produced.
Complete(op, args, cl, r) ==
    Settle(op, TryBlock(op, RequestResult(r), args, cl.workspace_slug))

\* ---------------------------------------------------------------------------
\* The environment: callers' arguments and the server's responses
\* ---------------------------------------------------------------------------
\* A value of the declared type of a field, different from every default the
\* mappings use.
Sample(ty) ==
    CASE ty \in {"str", "optstr"} -> JStr("x")
      [] ty = "int" -> JInt("1")
      [] ty \in {"float", "optfloat"} -> JFloat("1.5")
      [] ty = "bool" -> JBool("True")
      [] ty = "dict" -> JObj("k" :> JStr("x"))
      [] OTHER -> JArr(<<JStr("x")>>)

\* Per kind, the fields whose presence the responses vary one by one: the id,
\* the field a conversion applies to (or a second plain one), and one more.
ProbeFields ==
    [ State |-> <<"id", "sequence", "workspace_slug">>,
      Project |-> <<"id", "archive_in", "name">>,
      Label |-> <<"id", "sort_order", "parent">>,
      Link |-> <<"id", "metadata", "url">>,
      Issue |-> <<"id", "sort_order", "estimate_point">>,
      IssueActivity |-> <<"id", "epoch", "field">>,
      IssueComment |-> <<"id", "comment_json", "actor">>,
      Module |-> <<"id", "sort_order", "lead">>,
      ModuleIssue |-> <<"id", "sub_issues_count", "issue">>,
      Cycle |-> <<"id", "sort_order", "owned_by">>,
      CycleIssue |-> <<"id", "sub_issues_count", "issue">>,
      IntakeIssue |-> <<"id", "pending_issue_count", "is_default">>,
      IssueType |-> <<"id", "level", "is_active">>,
      IssueProperty |-> <<"id", "sort_order", "display_name">>,
      PropertyOption |-> <<"id", "sort_order", "parent">>,
      PropertyValue |-> <<"id", "project_ids", "parent">> ]

\* A key no dataclass declares.
ExtraKey == "unknown_key"

OddValues == {JNull, JStr("abc"), JStr("1"), JInt("1"), JInt("0")}

\* The response object with the given fields of the schema sch present, plus
\* an extra key.
ObjWith(sch, present, extra) ==
    JObj([f \in present |-> Sample(FieldIn(sch, f).type)]
         @@ (IF extra THEN (ExtraKey :> JStr("x")) ELSE EmptyMap))

FullOf(sch) == ObjWith(sch, NamesOf(sch), FALSE)

WithField(obj, f, v) == JObj((f :> v) @@ obj.o)

\* Objects a server may answer with for one record; pf are the probe fields
\* of the kind, the second of them receives the unusual values.
ObjectsOf(sch, pf) ==
    {ObjWith(sch, pr \cup (IF rest THEN NamesOf(sch) \ Range(pf) ELSE {}), extra) :
        pr \in SUBSET Range(pf), rest \in BOOLEAN, extra \in BOOLEAN}
    \cup {WithField(FullOf(sch), pf[2], v) : v \in OddValues}

\* Elements a server may put into a list.
ListElemsOf(sch, pf) ==
    { FullOf(sch),
      ObjWith(sch, NamesOf(sch), TRUE),
      ObjWith(sch, Range(pf), FALSE),
      ObjWith(sch, NamesOf(sch) \ {pf[2]}, FALSE),
      WithField(FullOf(sch), "id", JStr("y")),
      WithField(FullOf(sch), pf[2], JNull),
      WithField(FullOf(sch), pf[2], JStr("abc")),
      WithField(FullOf(sch), pf[2], JInt("1")),
      JNull }

ListsOver(elems) == UNION {[1..n -> elems] : n \in 0..MaxList}

OtherShapes ==
    { JNull, JStr("x"), JArr(<<>>), JObj(EmptyMap),
      JObj("results" :> JNull), JObj("results" :> JStr("x")),
      JObj("results" :> JObj("k" :> JStr("x"))) }

ListBodiesOver(lists, full) ==
    {JArr(l) : l \in lists} \cup {JObj("results" :> JArr(l)) : l \in lists}
    \cup {full} \cup OtherShapes

ObjBodiesOver(objs, full) ==
    objs \cup {JArr(<<full>>), JObj("results" :> JArr(<<full>>))} \cup OtherShapes

\* JSON bodies of a 2xx response to a call of the operation.
BodiesOf(op, sch, pf) ==
    CASE op.verb = "delete" -> {FullOf(sch), JNull}
      [] op.verb = "list" \/ op.shape \in {"first_of_list", "find_by_id"} ->
           ListBodiesOver(ListsOver(ListElemsOf(sch, pf)), FullOf(sch))
      [] OTHER -> ObjBodiesOver(ObjectsOf(sch, pf), FullOf(sch))

ErrorBody == JObj("detail" :> JStr("x"))

\* What the server may answer to a call of the operation.  300 stands for the
\* 3xx answers the session does not follow as a redirect.
ResponsesOf(op, sch, pf) ==
    {[fault |-> FALSE, status |-> 200, body |-> b] : b \in BodiesOf(op, sch, pf) \cup {NonJson}}
    \cup {[fault |-> FALSE, status |-> 201, body |-> b] : b \in {FullOf(sch), NonJson}}
    \cup {[fault |-> FALSE, status |-> 204, body |-> NonJson]}
    \cup {[fault |-> FALSE, status |-> 300, body |-> b] : b \in {ErrorBody, NonJson}}
    \cup {[fault |-> FALSE, status |-> s, body |-> b] :
            s \in {400, 401, 404, 500}, b \in {ErrorBody, NonJson}}

Responses(op) == ResponsesOf(op, Schema[op.kind], ProbeFields[op.kind])

FullObj(kind) == FullOf(Schema[kind])

\* Values a caller passes for a named parameter.
OptionIds == {JStr("x"), JStr("zz")}

IssueArgs ==
    { JObj(EmptyMap), JObj("name" :> JStr("arg")),
      JObj(("name" :> JStr("arg")) @@ (ExtraKey :> JStr("kw"))),
      JObj("description" :> JStr("kw")) }

ParamValue(p, oid, iss) ==
    CASE p = "option_id" -> oid
      [] p = "issue" -> iss
      [] p \in {"issues", "values"} -> JArr(<<JStr("i1")>>)
      [] OTHER -> JStr("arg")

\* Keys a caller passes as extra keyword arguments: keys the dataclass
\* declares (none of them a named parameter of the method) and the extra key.
KwKeys(op) ==
    IF ~op.kwargs THEN {}
    ELSE {ExtraKey} \cup
         (({"description", "title", "display_name", "name"} \cap FieldNames(op.kind))
            \ Range(op.params))

\* The arguments of a call: every named parameter bound, or one parameter the
\* body is built from left out; keyword arguments from KwKeys.
Drops(op) == {{}} \cup {{op.bodyInit[i][2]} : i \in DOMAIN op.bodyInit}

ArgsOf(op) ==
    {[pos |-> [p \in Range(op.params) \ d |-> ParamValue(p, oid, iss)],
      kw |-> [k \in ks |-> JStr("kw")]] :
        d \in Drops(op), oid \in OptionIds, iss \in IssueArgs,
        ks \in SUBSET KwKeys(op)}

\* Client configurations (the arguments of __init__).
Clients ==
    { [base_url |-> "https://api.plane.so", api_token |-> "secret",
       workspace_slug |-> "ws"],
      [base_url |-> "https://plane.example", api_token |-> "other-secret",
       workspace_slug |-> "team"] }

\* ---------------------------------------------------------------------------
\* The state machine
\* ---------------------------------------------------------------------------
\* Coroutines that may call the client.
AllTasks == {"t1", "t2"}

NoCall == [op |-> "none", pos |-> EmptyMap, kw |-> EmptyMap]

VARIABLES
    client,     \* the PlaneClient instance: base_url, api_token, workspace_slug
    pc,         \* per task: "idle", "sent" (suspended in _request), "done"
    call,       \* per task: the method called and its arguments
    req,        \* per task: the HTTP request its _request issued
    resp,       \* per task: what the network produced for that request
    outcome,    \* per task: how the call ended
    nreq,       \* per task: HTTP requests issued by the current call
    nsess,      \* per task: client sessions opened by the current call
    open        \* client sessions currently open

vars == <<client, pc, call, req, resp, outcome, nreq, nsess, open>>

ArgsIn(c) == [pos |-> c.pos, kw |-> c.kw]

Init ==
    /\ client \in Clients
    /\ pc = [t \in AllTasks |-> "idle"]
    /\ call = [t \in AllTasks |-> NoCall]
    /\ req = [t \in AllTasks |-> NoRequest]
    /\ resp = [t \in AllTasks |-> NoResponse]
    /\ outcome = [t \in AllTasks |-> NoOutcome]
    /\ nreq = [t \in AllTasks |-> 0]
    /\ nsess = [t \in AllTasks |-> 0]
    /\ open = 0

\* Variant: a _request that uses the session another call in flight has
\* opened instead of opening its own.
CallSharedSession(t, name, args) ==
    LET op == OpTable[name]
        pre == PreFailure(op, args)
    IN /\ pc[t] = "idle"
       /\ call' = [call EXCEPT ![t] = [op |-> name, pos |-> args.pos, kw |-> args.kw]]
       /\ IF pre.kind = "raise"
             THEN /\ pc' = [pc EXCEPT ![t] = "done"]
                  /\ outcome' = [outcome EXCEPT ![t] = pre]
                  /\ UNCHANGED <<req, nreq, nsess, open>>
             ELSE /\ pc' = [pc EXCEPT ![t] = "sent"]
                  /\ req' = [req EXCEPT ![t] = BuildRequest(op, args, client)]
                  /\ nreq' = [nreq EXCEPT ![t] = @ + 1]
                  /\ nsess' = [nsess EXCEPT ![t] = IF open > 0 THEN @ ELSE @ + 1]
                  /\ open' = open + 1
                  /\ UNCHANGED outcome
       /\ UNCHANGED <<client, resp>>

\* A task calls a public method.  The method runs up to its await: it either
\* ends at once (argument binding, the emptiness check) or _request opens a
\* session and sends the request.
Call(t, name, args) ==
    LET op == OpTable[name]
        pre == PreFailure(op, args)
    IN /\ pc[t] = "idle"
       /\ call' = [call EXCEPT ![t] = [op |-> name, pos |-> args.pos, kw |-> args.kw]]
       /\ IF pre.kind = "raise"
             THEN /\ pc' = [pc EXCEPT ![t] = "done"]
                  /\ outcome' = [outcome EXCEPT ![t] = pre]
                  /\ UNCHANGED <<req, nreq, nsess, open>>
             ELSE /\ pc' = [pc EXCEPT ![t] = "sent"]
                  /\ req' = [req EXCEPT ![t] = BuildRequest(op, args, client)]
                  /\ nreq' = [nreq EXCEPT ![t] = @ + 1]
                  /\ nsess' = [nsess EXCEPT ![t] = @ + 1]
                  /\ open' = open + 1
                  /\ UNCHANGED outcome
       /\ UNCHANGED <<client, resp>>

\* Variant: a _request that sends the request once more after a failure.
ResumeRetries(t, r) ==
    /\ pc[t] = "sent"
    /\ resp' = [resp EXCEPT ![t] = r]
    /\ IF ~RequestResult(r).ok /\ nreq[t] < 2
          THEN /\ nreq' = [nreq EXCEPT ![t] = @ + 1]
               /\ nsess' = [nsess EXCEPT ![t] = @ + 1]
               /\ UNCHANGED <<pc, outcome, open>>
          ELSE /\ outcome' = [outcome EXCEPT ![t] =
                                Complete(OpTable[call[t].op], ArgsIn(call[t]), client, r)]
               /\ pc' = [pc EXCEPT ![t] = "done"]
               /\ open' = open - 1
               /\ UNCHANGED <<nreq, nsess>>
    /\ UNCHANGED <<client, call, req>>

\* Variant: a _request that leaves its session open when it raises.
ResumeLeaksSession(t, r) ==
    /\ pc[t] = "sent"
    /\ resp' = [resp EXCEPT ![t] = r]
    /\ outcome' = [outcome EXCEPT ![t] =
                     Complete(OpTable[call[t].op], ArgsIn(call[t]), client, r)]
    /\ pc' = [pc EXCEPT ![t] = "done"]
    /\ open' = IF RequestResult(r).ok THEN open - 1 ELSE open
    /\ UNCHANGED <<client, call, req, nreq, nsess>>

\* The rest of the method once _request has something to work on: the session
\* is closed on the way out of the async with block, the method maps the
\* result or handles the exception.
Resume(t, r) ==
    /\ pc[t] = "sent"
    /\ resp' = [resp EXCEPT ![t] = r]
    /\ outcome' = [outcome EXCEPT ![t] =
                     Complete(OpTable[call[t].op], ArgsIn(call[t]), client, r)]
    /\ pc' = [pc EXCEPT ![t] = "done"]
    /\ open' = open - 1
    /\ UNCHANGED <<client, call, req, nreq, nsess>>

\* The server answers the request.
Respond(t) ==
    /\ pc[t] = "sent"
    /\ \E r \in Responses(OpTable[call[t].op]) : Resume(t, r)

\* The request fails below HTTP (connection refused, timeout).
Fault(t) ==
    /\ pc[t] = "sent"
    /\ Resume(t, TransportFault)

\* The caller takes the outcome; the task may call again.
Finish(t) ==
    /\ pc[t] = "done"
    /\ pc' = [pc EXCEPT ![t] = "idle"]
    /\ call' = [call EXCEPT ![t] = NoCall]
    /\ req' = [req EXCEPT ![t] = NoRequest]
    /\ resp' = [resp EXCEPT ![t] = NoResponse]
    /\ outcome' = [outcome EXCEPT ![t] = NoOutcome]
    /\ nreq' = [nreq EXCEPT ![t] = 0]
    /\ nsess' = [nsess EXCEPT ![t] = 0]
    /\ UNCHANGED <<client, open>>

\* One caller.
Start(t) == \E name \in Ops : \E args \in ArgsOf(OpTable[name]) : Call(t, name, args)

Next ==
    \/ Start("t1")
    \/ Respond("t1")
    \/ Fault("t1")
    \/ Finish("t1")

Spec == Init /\ [][Next]_vars

\* ---------------------------------------------------------------------------
\* Several callers on one client
\* ---------------------------------------------------------------------------
\* The methods the concurrent callers use: one of each verb, with and without
\* a request body, mapped in both styles.
SharedOps ==
    {"get_states", "get_project_details", "create_label", "update_state",
     "delete_link"}

\* Their arguments: every named parameter bound, with or without an optional
\* description.
SharedArgsOf(op) ==
    {[pos |-> [p \in Range(op.params) |-> JStr("arg")],
      kw |-> [k \in ks |-> JStr("kw")]] :
        ks \in SUBSET ({"description"} \cap KwKeys(op))}

\* What the server answers them: the complete object (in the results
\* envelope for a list), an empty object, no content, not found.
SharedResponsesOf(op) ==
    {[fault |-> FALSE, status |-> 200, body |-> b] :
        b \in {IF op.verb = "list"
                  THEN JObj("results" :> JArr(<<FullObj(op.kind)>>))
                  ELSE FullObj(op.kind),
               JObj(EmptyMap)}}
    \cup {[fault |-> FALSE, status |-> 204, body |-> NonJson],
          [fault |-> FALSE, status |-> 404, body |-> ErrorBody]}

StartAny(t) ==
    \E name \in SharedOps : \E args \in SharedArgsOf(OpTable[name]) : Call(t, name, args)

RespondAny(t) ==
    /\ pc[t] = "sent"
    /\ \E r \in SharedResponsesOf(OpTable[call[t].op]) : Resume(t, r)

\* Any task takes the next step: the event loop interleaves the coroutines at
\* their awaits.
NextConcurrent ==
    \E t \in AllTasks :
        \/ StartAny(t)
        \/ RespondAny(t)
        \/ Fault(t)
        \/ Finish(t)

SpecConcurrent == Init /\ [][NextConcurrent]_vars

\* ---------------------------------------------------------------------------
\* Vocabulary of the properties
\* ---------------------------------------------------------------------------
TheOp(t) == OpTable[call[t].op]

Done(t) == pc[t] = "done"

Returned(t) == Done(t) /\ outcome[t].kind = "return"

Raised(t, e) == Done(t) /\ outcome[t].kind = "raise" /\ outcome[t].exc = e

\* The response reached the method's mapping code as a JSON value.
Delivered(t) == Done(t) /\ nreq[t] = 1 /\ RequestResult(resp[t]).ok

Received(t) == RequestResult(resp[t]).val

\* ---------------------------------------------------------------------------
\* Error signalling of the operations
\* ---------------------------------------------------------------------------
\* The network produced a failure: a fault below HTTP or a status from 400 up.
TransportFailed(t) == resp[t].fault \/ resp[t].status >= 400

ProjectsWellFormed(r) ==
    /\ r.t = "obj" /\ "results" \in DOMAIN r.o
    /\ r.o["results"].t = "arr"
    /\ \A i \in DOMAIN r.o["results"].l : r.o["results"].l[i].t = "obj"

\* C2: get_projects never raises; it returns a list, and the empty list when
\* the transport failed, when the response is not a mapping with a results
\* key, or when iterating the results raised.
C2_GetProjectsNeverRaises ==
    \A t \in AllTasks :
        (Done(t) /\ call[t].op = "get_projects") =>
            /\ outcome[t].kind = "return"
            /\ outcome[t].val.t = "arr"
            /\ (~RequestResult(resp[t]).ok \/ ~ProjectsWellFormed(Received(t)))
                  => outcome[t].val = JArr(<<>>)
            /\ outcome[t].cause # "none" => outcome[t].val = JArr(<<>>)

\* get_projects has returned the empty list although the first element of the
\* results was a complete project: a later element was not an object.
C2_Witness ==
    \E t \in AllTasks :
        /\ Done(t) /\ call[t].op = "get_projects" /\ Delivered(t)
        /\ Received(t).t = "obj" /\ "results" \in DOMAIN Received(t).o
        /\ Received(t).o["results"] = JArr(<<FullObj("Project"), JNull>>)
        /\ outcome[t] = Return(JArr(<<>>), "AttributeError")

\* The response has a shape the list method accepts: a mapping with a results
\* key or, for the four methods that test for it, a bare list.
ListShapeExpected(op, r) ==
    \/ r.t = "obj" /\ "results" \in DOMAIN r.o
    \/ r.t = "arr" /\ op.shape = "results_or_list"

\* C3: a list method other than get_projects raises PlaneError when the
\* transport call fails or the response has an unexpected shape; it raises
\* nothing but PlaneError, and it returns a list only when the transport
\* succeeded and the shape was the expected one.
C3_ListRaisesPlaneError ==
    \A t \in AllTasks :
        (Done(t) /\ TheOp(t).verb = "list" /\ call[t].op # "get_projects") =>
            /\ (~RequestResult(resp[t]).ok \/ ~ListShapeExpected(TheOp(t), Received(t)))
                  => Raised(t, "PlaneError")
            /\ outcome[t].kind = "raise" => outcome[t].exc = "PlaneError"
            /\ outcome[t].kind = "return" => outcome[t].cause = "none"

\* A list method that does not accept a bare list received one and raised.
C3_Witness ==
    \E t \in AllTasks :
        /\ Done(t) /\ TheOp(t).verb = "list" /\ call[t].op # "get_projects"
        /\ Delivered(t) /\ Received(t).t = "arr" /\ Received(t).l # <<>>
        /\ Raised(t, "PlaneError") /\ outcome[t].cause = "ValueError"

C5_NotFoundOn404 ==
    \A t \in AllTasks :
        (Done(t) /\ TheOp(t).verb = "get" /\ ~resp[t].fault /\ resp[t].status = 404) =>
            Raised(t, "NotFoundError")

\* ---------------------------------------------------------------------------
\* Updates without fields
\* ---------------------------------------------------------------------------
\* The fields a call supplies that are left after filtering against the
\* schema: the entries of the request body or, for the intake methods, the
\* entries of the issue argument that the schema declares.
RemainingFields(op, args) ==
    IF op.wrap = "issue"
       THEN DOMAIN Restrict(args.pos["issue"].o, FieldNames(op.kind))
       ELSE DOMAIN FilteredData(op, args)

\* C6: a call of an update_* method (with all its required arguments) in
\* which no supplied field is left after filtering against the schema fails
\* with ValueError and issues no HTTP request.
C6_EmptyUpdateFailsWithoutRequest ==
    \A t \in AllTasks :
        (/\ pc[t] # "idle"
         /\ TheOp(t).verb = "update"
         /\ BindsArgs(TheOp(t), ArgsIn(call[t]))
         /\ RemainingFields(TheOp(t), ArgsIn(call[t])) = {}) =>
            Raised(t, "ValueError") /\ nreq[t] = 0

\* C7 as stated: update_label called with no optional field fails with
\* ValueError and sends no request.
C7_UpdateLabelFailsBeforeRequest ==
    \A t \in AllTasks :
        (pc[t] # "idle" /\ call[t].op = "update_label" /\ DOMAIN call[t].kw = {}) =>
            Raised(t, "ValueError") /\ nreq[t] = 0

\* C7, as the code has it: update_label never fails with ValueError.  Called
\* with no optional field and with its required name, it sends one PATCH
\* request whose body is {name}; called without name, the call is rejected
\* with TypeError when the arguments are bound, and no request is sent.
C7_UpdateLabelSendsName ==
    \A t \in AllTasks :
        (pc[t] # "idle" /\ call[t].op = "update_label" /\ DOMAIN call[t].kw = {}) =>
            /\ ~Raised(t, "ValueError")
            /\ "name" \in DOMAIN call[t].pos =>
                  /\ nreq[t] = 1
                  /\ req[t].method = "PATCH"
                  /\ req[t].body = JObj("name" :> call[t].pos["name"])
            /\ "name" \notin DOMAIN call[t].pos =>
                  Raised(t, "TypeError") /\ nreq[t] = 0

\* update_label, called with name and nothing else, has its request on the
\* wire.
C7_Witness ==
    \E t \in AllTasks :
        /\ pc[t] = "sent" /\ call[t].op = "update_label"
        /\ DOMAIN call[t].kw = {} /\ "name" \in DOMAIN call[t].pos
        /\ req[t].body = JObj("name" :> JStr("arg"))

\* ---------------------------------------------------------------------------
\* Mapping of response objects
\* ---------------------------------------------------------------------------
\* A response object without the keys the schema of the kind does not declare.
StripObj(kind, x) ==
    IF x.t = "obj" THEN JObj(Restrict(x.o, FieldNames(kind))) ELSE x

StripList(kind, a) == JArr([i \in DOMAIN a.l |-> StripObj(kind, a.l[i])])

\* A response body in which every object the method may map is stripped: the
\* object itself (get_option_details maps no body that is an object), the
\* elements of a list, the elements of the results of an envelope.
StripBody(op, b) ==
    CASE b.t = "arr" -> StripList(op.kind, b)
      [] b.t = "obj" /\ op.verb = "list" /\ "results" \in DOMAIN b.o ->
           IF b.o["results"].t = "arr"
              THEN JObj(("results" :> StripList(op.kind, b.o["results"])) @@ b.o)
              ELSE b
      [] b.t = "obj" /\ op.verb # "list" /\ op.shape # "find_by_id" ->
           StripObj(op.kind, b)
      [] OTHER -> b

\* Every record of a returned value has exactly the fields of the schema.
HasSchemaFields(kind, v) ==
    CASE v.t = "rec" -> v.kind = kind /\ DOMAIN v.o = FieldNames(kind)
      [] v.t = "arr" -> \A i \in DOMAIN v.l :
                           /\ v.l[i].t = "rec"
                           /\ v.l[i].kind = kind
                           /\ DOMAIN v.l[i].o = FieldNames(kind)
      [] OTHER -> FALSE

\* C8: keys of a response object that the schema of the kind does not declare
\* are dropped silently: the call ends exactly as it does for the same
\* response without those keys (so they never make the mapping fail), and
\* every record returned has exactly the fields of the schema.
C8_WhitelistOnRead ==
    \A t \in AllTasks :
        (Done(t) /\ nreq[t] = 1 /\ TheOp(t).verb # "delete") =>
            /\ outcome[t] = Complete(TheOp(t), ArgsIn(call[t]), client,
                                     [resp[t] EXCEPT !.body = StripBody(TheOp(t), @)])
            /\ outcome[t].kind = "return" => HasSchemaFields(TheOp(t).kind, outcome[t].val)

\* get_project_details received a complete project with an extra key and
\* returned a Project without it.
C8_Witness ==
    \E t \in AllTasks :
        /\ Done(t) /\ call[t].op = "get_project_details" /\ Delivered(t)
        /\ Received(t).t = "obj"
        /\ ExtraKey \in DOMAIN Received(t).o
        /\ outcome[t].kind = "return"
        /\ outcome[t].val.t = "rec"
        /\ ExtraKey \notin DOMAIN outcome[t].val.o

\* The default the declared type of a field stands for.
TypeDefault(ty) ==
    CASE ty \in {"str", "optstr"} -> JStr("")
      [] ty = "int" -> JInt("0")
      [] ty \in {"float", "optfloat"} -> JFloat("0.0")
      [] ty = "bool" -> JBool("False")
      [] ty = "dict" -> JObj(EmptyMap)
      [] OTHER -> JArr(<<>>)

\* The default of a field of the kind a method builds: the one its
\* constructor call names, else the one the dataclass declares, else the one
\* of the declared type.
DeclaredDefault(op, f) ==
    IF op.style = "explicit"
       THEN (Mappings[op.mapping][CHOOSE i \in DOMAIN Mappings[op.mapping] :
                                     Mappings[op.mapping][i].field = f]).dflt
       ELSE IF FieldIn(Schema[op.kind], f).hasDefault
               THEN FieldIn(Schema[op.kind], f).default
               ELSE TypeDefault(FieldIn(Schema[op.kind], f).type)

\* Fields the method fills from the response (not from the client).
ResponseFields(op) ==
    IF op.style = "explicit"
       THEN {Mappings[op.mapping][i].field :
               i \in {j \in DOMAIN Mappings[op.mapping] : Mappings[op.mapping][j].src = "get"}}
       ELSE FieldNames(op.kind)

\* An object whose entries under schema keys all hold a value of the declared
\* type.
WellTyped(kind, x) ==
    /\ x.t = "obj"
    /\ \A f \in DOMAIN x.o \cap FieldNames(kind) :
          x.o[f] = Sample(FieldIn(Schema[kind], f).type)

\* The record has the declared default in every field the object lacks.
DefaultFilled(op, x, rec) ==
    /\ rec.t = "rec"
    /\ \A f \in ResponseFields(op) \ DOMAIN x.o : rec.o[f] = DeclaredDefault(op, f)

\* C9: for every kind, a well-typed response object that lacks schema fields
\* is mapped without failure, by the get, create and update methods and as an
\* element of a list, and the record holds the declared default in each
\* lacking field.
C9_DefaultFillOnRead ==
    \A t \in AllTasks :
        (Done(t) /\ Delivered(t)) =>
            /\ (/\ TheOp(t).verb \in {"get", "create", "update"}
                /\ TheOp(t).shape \in {"none", "dict_check"}
                /\ WellTyped(TheOp(t).kind, Received(t))) =>
                   /\ outcome[t].kind = "return"
                   /\ DefaultFilled(TheOp(t), Received(t), outcome[t].val)
            /\ (/\ TheOp(t).verb = "list"
                /\ Received(t).t = "obj" /\ "results" \in DOMAIN Received(t).o
                /\ Received(t).o["results"].t = "arr"
                /\ \A i \in DOMAIN Received(t).o["results"].l :
                      WellTyped(TheOp(t).kind, Received(t).o["results"].l[i])) =>
                   /\ outcome[t].kind = "return"
                   /\ outcome[t].val.t = "arr"
                   /\ Len(outcome[t].val.l) = Len(Received(t).o["results"].l)
                   /\ \A i \in DOMAIN outcome[t].val.l :
                         DefaultFilled(TheOp(t), Received(t).o["results"].l[i],
                                       outcome[t].val.l[i])

\* ---------------------------------------------------------------------------
\* get_states
\* ---------------------------------------------------------------------------
\* get_states received an envelope whose results are objects.
StatesOfObjects(t) ==
    /\ Done(t) /\ call[t].op = "get_states" /\ Delivered(t)
    /\ Received(t).t = "obj" /\ "results" \in DOMAIN Received(t).o
    /\ Received(t).o["results"].t = "arr"
    /\ \A i \in DOMAIN Received(t).o["results"].l :
          Received(t).o["results"].l[i].t = "obj"

StateElems(t) == Received(t).o["results"].l

\* The default of a State field: False for default, '' for every other one.
StateDefault(f) == IF f = "default" THEN JBool("False") ELSE JStr("")

\* The value of the element under the key, or the default of the field.
TakenOrDefault(x, f) == IF f \in DOMAIN x.o THEN x.o[f] ELSE StateDefault(f)

\* get_states returned one State per element.
OneStatePerElement(t) ==
    /\ outcome[t].kind = "return"
    /\ outcome[t].val.t = "arr"
    /\ Len(outcome[t].val.l) = Len(StateElems(t))
    /\ \A i \in DOMAIN outcome[t].val.l :
          /\ outcome[t].val.l[i].t = "rec"
          /\ outcome[t].val.l[i].kind = "State"
          /\ DOMAIN outcome[t].val.l[i].o = FieldNames("State")

\* C10 as stated: get_states yields one State per element of the results;
\* every field the element carries is taken from it, every other field is at
\* its default.
C10_StatesTakenFromElements ==
    \A t \in AllTasks :
        StatesOfObjects(t) =>
            /\ OneStatePerElement(t)
            /\ \A i \in DOMAIN StateElems(t) : \A f \in FieldNames("State") :
                  outcome[t].val.l[i].o[f] = TakenOrDefault(StateElems(t)[i], f)

\* C10, as the code has it: get_states yields one State per element of the
\* results, in order.  workspace_slug is the slug of the client whatever the
\* element carries; sequence is the text str() gives for the element's value
\* ("1" for 1, "None" for null), '' when the element has none; every other
\* field is taken from the element when it carries it and is at its default
\* otherwise.
C10_StatesMappedWithOverrides ==
    \A t \in AllTasks :
        StatesOfObjects(t) =>
            /\ OneStatePerElement(t)
            /\ \A i \in DOMAIN StateElems(t) : \A f \in FieldNames("State") :
                  outcome[t].val.l[i].o[f] =
                     CASE f = "workspace_slug" -> JStr(client.workspace_slug)
                       [] f = "sequence" -> JStr(TakenOrDefault(StateElems(t)[i], f).v)
                       [] OTHER -> TakenOrDefault(StateElems(t)[i], f)

\* get_states mapped an element carrying the number 1 as sequence and a
\* workspace_slug other than the client's.
C10_Witness ==
    \E t \in AllTasks :
        /\ StatesOfObjects(t)
        /\ Len(StateElems(t)) = 1
        /\ "sequence" \in DOMAIN StateElems(t)[1].o
        /\ StateElems(t)[1].o["sequence"] = JInt("1")
        /\ "workspace_slug" \in DOMAIN StateElems(t)[1].o
        /\ StateElems(t)[1].o["workspace_slug"] # JStr(client.workspace_slug)
        /\ outcome[t].kind = "return"
        /\ outcome[t].val.l[1].o["sequence"] = JStr("1")
        /\ outcome[t].val.l[1].o["workspace_slug"] = JStr(client.workspace_slug)

\* ---------------------------------------------------------------------------
\* Values of the response in the record
\* ---------------------------------------------------------------------------
\* The method maps the response body itself (no lookup in a collection).
MapsBody(op) ==
    op.verb \in {"get", "create", "update"} /\ op.shape \in {"none", "dict_check"}

\* C11: when the response object of a get, create or update carries every
\* field of the schema, whatever the values, the call returns a record that
\* holds under each field exactly the value of the response (same value, same
\* type, null included).
C11_RawValuesPreserved ==
    \A t \in AllTasks :
        (/\ Done(t) /\ Delivered(t) /\ MapsBody(TheOp(t))
         /\ Received(t).t = "obj"
         /\ FieldNames(TheOp(t).kind) \subseteq DOMAIN Received(t).o) =>
            /\ outcome[t].kind = "return"
            /\ \A f \in FieldNames(TheOp(t).kind) :
                  outcome[t].val.o[f] = Received(t).o[f]

\* ---------------------------------------------------------------------------
\* The request body
\* ---------------------------------------------------------------------------
\* Keys the body holds for the named parameters of the method.
RequiredKeys(op) == {op.bodyInit[i][1] : i \in DOMAIN op.bodyInit}

\* The optional fields the caller supplies: the extra keyword arguments or,
\* for the intake methods, the entries of the issue argument.
SuppliedFields(op, args) ==
    IF op.wrap = "issue" THEN args.pos["issue"].o ELSE args.kw

\* The fields on the wire: the body or, for the intake methods, the object
\* under its key issue.
SentFields(op, body) ==
    IF op.wrap = "issue" THEN body.o["issue"].o ELSE body.o

\* The body of a request is what the whitelist lets through: the keys for
\* the named parameters plus the supplied fields the schema declares, each
\* of the latter with the supplied value.
BodyIsWhitelisted(op, args, body) ==
    /\ body.t = "obj"
    /\ op.wrap = "issue" => DOMAIN body.o = {"issue"} /\ body.o["issue"].t = "obj"
    /\ DOMAIN SentFields(op, body) =
          RequiredKeys(op) \cup (DOMAIN SuppliedFields(op, args) \cap FieldNames(op.kind))
    /\ \A k \in DOMAIN SuppliedFields(op, args) \cap FieldNames(op.kind) :
          SentFields(op, body)[k] = SuppliedFields(op, args)[k]
    /\ (DOMAIN SuppliedFields(op, args) \ FieldNames(op.kind))
          \cap DOMAIN SentFields(op, body) = {}
    /\ DOMAIN SentFields(op, body) \subseteq FieldNames(op.kind) \cup RequiredKeys(op)

\* C12: the body of every create and update request holds exactly the keys
\* for the required parameters of the method and the supplied optional fields
\* that the schema declares, the latter with their supplied values; a
\* supplied key the schema does not declare is not sent, and no key is sent
\* that is neither declared nor required.
C12_WhitelistOnWrite ==
    \A t \in AllTasks :
        (pc[t] # "idle" /\ TheOp(t).verb \in {"create", "update"} /\ nreq[t] = 1) =>
            BodyIsWhitelisted(TheOp(t), ArgsIn(call[t]), req[t].body)

\* ---------------------------------------------------------------------------
\* Lists
\* ---------------------------------------------------------------------------
\* The list method received a list of elements in an envelope it accepts.
ReceivedList(t) ==
    /\ Done(t) /\ Delivered(t) /\ TheOp(t).verb = "list"
    /\ ListSource(TheOp(t), Received(t)).ok
    /\ ListSource(TheOp(t), Received(t)).val.t = "arr"

ElementsOf(t) == ListSource(TheOp(t), Received(t)).val.l

\* The record of one element, mapped on its own.
MappedAlone(t, x) == MapOne(TheOp(t), x, client.workspace_slug)

\* The records of the elements that can be mapped, in the order of the list.
RECURSIVE MappableOnly(_, _)
MappableOnly(t, items) ==
    IF items = <<>> THEN <<>>
    ELSE (IF MappedAlone(t, Head(items)).ok
             THEN <<MappedAlone(t, Head(items)).val>> ELSE <<>>)
         \o MappableOnly(t, Tail(items))

\* C13: a list method that receives N elements of which some, but not all,
\* cannot be mapped (a missing required field, an element that is not an
\* object, a null or non-numeric value in a numeric field) returns the
\* records of the others, in server order, and does not fail.
C13_ListPartialSuccess ==
    \A t \in AllTasks :
        (/\ ReceivedList(t)
         /\ \E i \in DOMAIN ElementsOf(t) : MappedAlone(t, ElementsOf(t)[i]).ok) =>
            /\ outcome[t].kind = "return"
            /\ outcome[t].val = JArr(MappableOnly(t, ElementsOf(t)))

\* C14: when every element of the list a list method receives can be mapped,
\* the method returns as many records as there are elements, the i-th record
\* being the mapping of the i-th element; an empty list gives an empty list.
C14_ServerOrderPreserved ==
    \A t \in AllTasks :
        (/\ ReceivedList(t)
         /\ \A i \in DOMAIN ElementsOf(t) : MappedAlone(t, ElementsOf(t)[i]).ok) =>
            /\ outcome[t].kind = "return"
            /\ outcome[t].val.t = "arr"
            /\ Len(outcome[t].val.l) = Len(ElementsOf(t))
            /\ \A i \in DOMAIN ElementsOf(t) :
                  outcome[t].val.l[i] = MappedAlone(t, ElementsOf(t)[i]).val

\* get_issues received two issues with different ids and returned their
\* records in the server's order.
C14_Witness ==
    \E t \in AllTasks :
        /\ ReceivedList(t) /\ call[t].op = "get_issues"
        /\ Len(ElementsOf(t)) = 2
        /\ ElementsOf(t)[1].t = "obj" /\ ElementsOf(t)[2].t = "obj"
        /\ ElementsOf(t)[1].o["id"] = JStr("x")
        /\ ElementsOf(t)[2].o["id"] = JStr("y")
        /\ outcome[t].kind = "return"
        /\ Len(outcome[t].val.l) = 2
        /\ outcome[t].val.l[1].o["id"] = JStr("x")
        /\ outcome[t].val.l[2].o["id"] = JStr("y")

\* The list methods whose shape test also accepts a bare list.
AcceptsBareList(op) == op.shape = "results_or_list"

\* What a list method gives for the list l once its shape test has passed.
ListOutcome(t, l) ==
    Settle(TheOp(t), ListOf(MapItems(TheOp(t), l, client.workspace_slug)))

\* The method has met a shape it does not accept: the ValueError of its shape
\* test reached the handler.
ShapeRejected(t) ==
    /\ outcome[t].cause = "ValueError"
    /\ outcome[t] = Handler(TheOp(t), "ValueError")

\* C15 as stated: every list method takes a bare list as it takes the list
\* under the results key of a mapping, and fails on any other shape with the
\* error of its shape test.
C15_EveryListAcceptsBothEnvelopes ==
    \A t \in AllTasks :
        (Done(t) /\ Delivered(t) /\ TheOp(t).verb = "list") =>
            /\ (/\ Received(t).t = "obj" /\ "results" \in DOMAIN Received(t).o
                /\ Received(t).o["results"].t = "arr") =>
                   outcome[t] = ListOutcome(t, Received(t).o["results"].l)
            /\ Received(t).t = "arr" => outcome[t] = ListOutcome(t, Received(t).l)
            /\ (/\ Received(t).t # "arr"
                /\ ~(Received(t).t = "obj" /\ "results" \in DOMAIN Received(t).o)) =>
                   outcome[t].kind = "raise" /\ outcome[t].cause = "ValueError"

\* C15, as the code has it: every list method maps the list under the results
\* key of a mapping; get_issue_types, get_issue_properties,
\* get_property_options and get_property_values map a bare list the same way,
\* the other twelve reject a bare list; a response that is neither a mapping
\* with a results key nor a bare list is rejected by all of them.  Rejection
\* is the ValueError of the shape test, which the caller sees as PlaneError
\* (as the empty list from get_projects).
C15_EnvelopesPerMethod ==
    \A t \in AllTasks :
        (Done(t) /\ Delivered(t) /\ TheOp(t).verb = "list") =>
            /\ (/\ Received(t).t = "obj" /\ "results" \in DOMAIN Received(t).o
                /\ Received(t).o["results"].t = "arr") =>
                   outcome[t] = ListOutcome(t, Received(t).o["results"].l)
            /\ (Received(t).t = "arr" /\ AcceptsBareList(TheOp(t))) =>
                   outcome[t] = ListOutcome(t, Received(t).l)
            /\ (Received(t).t = "arr" /\ ~AcceptsBareList(TheOp(t))) =>
                   ShapeRejected(t)
            /\ (/\ Received(t).t # "arr"
                /\ ~(Received(t).t = "obj" /\ "results" \in DOMAIN Received(t).o)) =>
                   ShapeRejected(t)
            /\ ShapeRejected(t) =>
                  \/ Raised(t, "PlaneError")
                  \/ call[t].op = "get_projects" /\ outcome[t].val = JArr(<<>>)

\* get_issue_types received a bare list of one issue type and returned its
\* record.
C15_Witness ==
    \E t \in AllTasks :
        /\ Done(t) /\ Delivered(t) /\ call[t].op = "get_issue_types"
        /\ Received(t) = JArr(<<FullObj("IssueType")>>)
        /\ outcome[t].kind = "return"
        /\ Len(outcome[t].val.l) = 1
        /\ outcome[t].val.l[1].kind = "IssueType"

\* ---------------------------------------------------------------------------
\* create_module_issue, create_cycle_issue
\* ---------------------------------------------------------------------------
\* The call is one of the two bulk join-creates and received a list.
BulkCreateGotList(t) ==
    /\ Done(t) /\ Delivered(t)
    /\ call[t].op \in {"create_module_issue", "create_cycle_issue"}
    /\ Received(t).t = "arr"

\* C16: when create_module_issue or create_cycle_issue receives a list with
\* at least one element, the call ends as it does when the server answers
\* with the first element alone (the other elements have no influence); when
\* it receives the empty list, the call fails.
C16_BulkCreateMapsFirstElement ==
    \A t \in AllTasks :
        BulkCreateGotList(t) =>
            /\ Received(t).l # <<>> =>
                  outcome[t] = Settle(TheOp(t),
                                      MapOne(TheOp(t), Received(t).l[1],
                                             client.workspace_slug))
            /\ Received(t).l = <<>> =>
                  /\ Raised(t, "PlaneError")
                  /\ outcome[t].cause = "ValueError"

\* create_cycle_issue received two cycle issues with different ids and
\* returned the record of the first.
C16_Witness ==
    \E t \in AllTasks :
        /\ BulkCreateGotList(t) /\ call[t].op = "create_cycle_issue"
        /\ Len(Received(t).l) = 2
        /\ Received(t).l[1].t = "obj" /\ Received(t).l[2].t = "obj"
        /\ Received(t).l[1].o["id"] = JStr("x")
        /\ Received(t).l[2].o["id"] = JStr("y")
        /\ outcome[t].kind = "return"
        /\ outcome[t].val.kind = "CycleIssue"
        /\ outcome[t].val.o["id"] = JStr("x")

\* ---------------------------------------------------------------------------
\* The record of a create or update
\* ---------------------------------------------------------------------------
\* A call without arguments.
NoArgs == [pos |-> EmptyMap, kw |-> EmptyMap]

\* C17: the outcome of a create or update whose request was sent is a
\* function of the response alone (and of the client it was called on): it is
\* the outcome the method has for that response whatever the arguments of the
\* call, so calls with different payloads and the same response return equal
\* records and no field of the record comes from the arguments.
C17_RecordFromResponseOnly ==
    \A t \in AllTasks :
        (Done(t) /\ TheOp(t).verb \in {"create", "update"} /\ nreq[t] = 1) =>
            outcome[t] = Complete(TheOp(t), NoArgs, client, resp[t])

\* update_label sent a name and a description of its own, received a label
\* with other values and returned those of the response.
C17_Witness ==
    \E t \in AllTasks :
        /\ Done(t) /\ Delivered(t) /\ call[t].op = "update_label"
        /\ req[t].body = JObj(("name" :> JStr("arg")) @@ ("description" :> JStr("kw")))
        /\ Received(t) = FullObj("Label")
        /\ outcome[t].kind = "return"
        /\ outcome[t].val.o["name"] = JStr("x")
        /\ outcome[t].val.o["description"] = JStr("x")

\* ---------------------------------------------------------------------------
\* create_property, update_property
\* ---------------------------------------------------------------------------
PropertyRequestSent(t) ==
    /\ pc[t] # "idle" /\ nreq[t] = 1
    /\ call[t].op \in {"create_property", "update_property"}

\* C18 as stated: whatever the optional keyword fields, the body of
\* create_property and update_property carries the name argument under the
\* key display_name and has no key name.
C18_NameSentAsDisplayName ==
    \A t \in AllTasks :
        PropertyRequestSent(t) =>
            /\ "display_name" \in DOMAIN req[t].body.o
            /\ req[t].body.o["display_name"] = call[t].pos["name"]
            /\ "name" \notin DOMAIN req[t].body.o

\* C18, as the code has it: the body of create_property and update_property
\* has no key name and always has the key display_name; it holds the name
\* argument there unless the caller also passes display_name as a keyword
\* field, in which case the keyword value is sent and the name argument is
\* not.
C18_NameSentUnlessDisplayNameGiven ==
    \A t \in AllTasks :
        PropertyRequestSent(t) =>
            /\ "display_name" \in DOMAIN req[t].body.o
            /\ "name" \notin DOMAIN req[t].body.o
            /\ req[t].body.o["display_name"] =
                  IF "display_name" \in DOMAIN call[t].kw
                     THEN call[t].kw["display_name"]
                     ELSE call[t].pos["name"]

\* update_property, called with a name and a description, has its request on
\* the wire with the name under display_name.
C18_Witness ==
    \E t \in AllTasks :
        /\ PropertyRequestSent(t) /\ call[t].op = "update_property"
        /\ DOMAIN call[t].kw = {"description"}
        /\ req[t].body =
              JObj(("display_name" :> JStr("arg")) @@ ("description" :> JStr("kw")))

\* ---------------------------------------------------------------------------
\* Complete responses
\* ---------------------------------------------------------------------------
\* The server answered a get, create or update with success and an object
\* that carries every field of the schema, each with a value of its declared
\* type.
GotCompleteObject(t) ==
    /\ Done(t) /\ nreq[t] = 1
    /\ TheOp(t).verb \in {"get", "create", "update"}
    /\ ~resp[t].fault /\ resp[t].status \in {200, 201}
    /\ WellTyped(TheOp(t).kind, resp[t].body)
    /\ FieldNames(TheOp(t).kind) \subseteq DOMAIN resp[t].body.o

ReturnedRecordOfKind(t) ==
    /\ outcome[t].kind = "return"
    /\ outcome[t].val.t = "rec"
    /\ outcome[t].val.kind = TheOp(t).kind
    /\ DOMAIN outcome[t].val.o = FieldNames(TheOp(t).kind)

OwnState(t) == <<pc[t], call[t], req[t], resp[t], outcome[t], nreq[t], nsess[t]>>

\* Each call in flight or done is what it is when run alone: it opened one
\* session of its own, its request is the one its arguments give, and its
\* outcome is the one the method has for its arguments and its response.
RunsAsAlone(t) ==
    /\ pc[t] # "idle" =>
          /\ nsess[t] = nreq[t]
          /\ nreq[t] = IF PreFailure(TheOp(t), ArgsIn(call[t])).kind = "raise"
                          THEN 0 ELSE 1
    /\ (pc[t] # "idle" /\ nreq[t] = 1) =>
          req[t] = BuildRequest(TheOp(t), ArgsIn(call[t]), client)
    /\ (Done(t) /\ nreq[t] = 1) =>
          outcome[t] = Complete(TheOp(t), ArgsIn(call[t]), client, resp[t])
    /\ (Done(t) /\ nreq[t] = 0) =>
          outcome[t] = PreFailure(TheOp(t), ArgsIn(call[t]))

\* A step changes the per-call state of one task at most, and never the
\* client.
StepsOneTask ==
    /\ client' = client
    /\ \A t, u \in AllTasks :
          (t # u /\ OwnState(t)' # OwnState(t)) => OwnState(u)' = OwnState(u)

\* C19: in every interleaving of the calls of several tasks on one client,
\* each call opens its own session (as many sessions are open as calls are in
\* flight), its request and its outcome are those of the call run alone with
\* the same response, and no step of one call changes the state of another
\* call or the client.
C19_ConcurrentCallsIndependent ==
    /\ [](\A t \in AllTasks : RunsAsAlone(t))
    /\ [](open = Cardinality({t \in AllTasks : pc[t] = "sent"}))
    /\ [][StepsOneTask]_vars

\* Two calls were in flight at once, each with a session of its own; one has
\* returned its states while the other still waits for its response.
C19_Witness ==
    \E t, u \in AllTasks :
        /\ t # u
        /\ Returned(t) /\ call[t].op = "get_states"
        /\ pc[u] = "sent" /\ call[u].op = "create_label"
        /\ nsess[t] = 1 /\ nsess[u] = 1
        /\ open = 1
        /\ req[t] # req[u]

\* ---------------------------------------------------------------------------
\* The transport primitive
\* ---------------------------------------------------------------------------
\* The call of the task has had an HTTP response.
Answered(t) == Done(t) /\ nreq[t] = 1 /\ ~resp[t].fault

Success2xx(r) == r.status >= 200 /\ r.status <= 299

\* C21: _request fails with NotFoundError, and with nothing else, when the
\* response has status 404.
C21_RequestRaisesNotFound ==
    \A t \in AllTasks :
        (Answered(t) /\ resp[t].status = 404) =>
            /\ RequestResult(resp[t]) = Err("NotFoundError")
            /\ outcome[t].cause = "NotFoundError"

\* C22: for a status outside 2xx other than 404, _request returns no value
\* and fails with the client's generic error, which carries the status and
\* the raw body of the response.
C22_RequestRaisesRequestFailed ==
    \A t \in AllTasks :
        (Answered(t) /\ ~Success2xx(resp[t]) /\ resp[t].status # 404) =>
            /\ ~RequestResult(resp[t]).ok
            /\ RequestResult(resp[t]).exc = "PlaneError"
            /\ RaisedCarries(resp[t]).status = resp[t].status
            /\ RaisedCarries(resp[t]).body = resp[t].body

\* C23: _request returns None for a response with status 204, whatever the
\* body, without parsing it and without raising; for any other 2xx response
\* whose body is a JSON object or array it returns the parsed body.
C23_RequestReturnsNoneOrJson ==
    \A t \in AllTasks :
        Answered(t) =>
            /\ resp[t].status = 204 =>
                  /\ RequestResult(resp[t]) = Ok(JNull)
                  /\ outcome[t].cause \notin
                        {"ContentTypeError", "ClientResponseError", "ClientConnectionError"}
            /\ (/\ Success2xx(resp[t]) /\ resp[t].status # 204
                /\ resp[t].body.t \in {"obj", "arr"}) =>
                  RequestResult(resp[t]) = Ok(resp[t].body)

\* A delete answered with 204 and no JSON body has returned True.
C23_Witness ==
    \E t \in AllTasks :
        /\ Answered(t) /\ TheOp(t).verb = "delete"
        /\ resp[t].status = 204 /\ resp[t].body = NonJson
        /\ outcome[t] = Return(JBool("True"), "none")

\* ---------------------------------------------------------------------------
\* Requests and sessions of a call
\* ---------------------------------------------------------------------------
\* A call issues one request at most, has no outcome while the request is in
\* flight, and is done only once the request has completed.
OneRequestAwaited(t) ==
    /\ nreq[t] <= 1
    /\ pc[t] = "sent" =>
          /\ nreq[t] = 1
          /\ resp[t] = NoResponse
          /\ outcome[t] = NoOutcome
    /\ (Done(t) /\ nreq[t] = 1) =>
          /\ resp[t] # NoResponse
          /\ outcome[t] # NoOutcome

\* A request is issued only by a call that starts: never while one is in
\* flight, never after a response or a failure.
NoSecondRequest ==
    \A t \in AllTasks : nreq[t]' > nreq[t] => (pc[t] = "idle" /\ nreq[t] = 0)

\* C24: a call that reaches the transport issues exactly one HTTP request and
\* ends only after that request has completed; no further request is issued
\* by the call, whether the first succeeded or failed.
C24_OneRequestPerCall ==
    /\ [](\A t \in AllTasks : OneRequestAwaited(t))
    /\ [][NoSecondRequest]_vars

\* A call whose request was answered with 500 has ended having issued that one
\* request.
C24_Witness ==
    \E t \in AllTasks :
        /\ Answered(t) /\ resp[t].status = 500
        /\ nreq[t] = 1
        /\ outcome[t].kind \in {"raise", "return"}
        /\ outcome[t].cause = "ClientResponseError"

\* Sessions of a call: one per request, none without.
OneSessionPerCall(t) == pc[t] # "idle" => (nsess[t] = nreq[t] /\ nsess[t] <= 1)

\* The session is opened when the request is sent and closed when the call
\* leaves _request, whichever way.
OpensAndCloses ==
    \A t \in AllTasks :
        /\ (pc[t] = "idle" /\ pc[t]' = "sent") => (open' = open + 1 /\ nsess[t]' = 1)
        /\ (pc[t] = "sent" /\ pc[t]' = "done") => open' = open - 1
        /\ (pc[t] = "done" /\ pc[t]' = "idle") => open' = open

\* C25: each transport call opens one session and closes it before the call
\* returns or raises, on every path; no session is open when no call is in
\* flight, and every call opens a session of its own.
C25_SessionClosedOnEveryPath ==
    /\ [](\A t \in AllTasks : OneSessionPerCall(t))
    /\ []((\A t \in AllTasks : pc[t] # "sent") => open = 0)
    /\ [][OpensAndCloses]_vars

\* A call whose 200 response could not be parsed has ended, its one session
\* closed.
C25_Witness ==
    \E t \in AllTasks :
        /\ Answered(t) /\ resp[t].status = 200 /\ resp[t].body = NonJson
        /\ outcome[t].cause = "ContentTypeError"
        /\ nsess[t] = 1
        /\ open = 0

\* ---------------------------------------------------------------------------
\* Authentication and addressing
\* ---------------------------------------------------------------------------
\* The request carries the client's token and addresses the client's
\* workspace under the client's base URL.
AddressedToWorkspace(r, cl) ==
    /\ r.headers = ("x-api-key" :> cl.api_token)
    /\ Len(r.url) >= 4
    /\ r.url[1] = cl.base_url
    /\ r.url[2] = "/api/v1/workspaces/"
    /\ r.url[3] = cl.workspace_slug
    /\ r.url[4] = "/projects/"

\* C26: every request carries the header x-api-key with the token given at
\* construction and a URL made of the base URL given at construction followed
\* by /api/v1/workspaces/<workspace_slug>/...; no operation changes the
\* token, the base URL or the workspace slug.
C26_RequestsCarryKeyAndPrefix ==
    /\ [](\A t \in AllTasks : nreq[t] = 1 => AddressedToWorkspace(req[t], client))
    /\ [](client \in Clients)
    /\ [][client' = client]_vars

\* A request of the second client is on the wire with that client's token,
\* base URL and workspace.
C26_Witness ==
    \E t \in AllTasks :
        /\ pc[t] = "sent" /\ call[t].op = "create_issue"
        /\ client.workspace_slug = "team"
        /\ req[t].headers["x-api-key"] = "other-secret"
        /\ req[t].url[1] = "https://plane.example"
        /\ req[t].url[3] = "team"

\* ---------------------------------------------------------------------------
\* get_option_details
\* ---------------------------------------------------------------------------
\* The option collection of a response in one of the two shapes
\* get_property_options accepts.
IsOptionCollection(r) ==
    \/ r.t = "arr"
    \/ r.t = "obj" /\ "results" \in DOMAIN r.o /\ r.o["results"].t = "arr"

OptionCollection(r) == IF r.t = "arr" THEN r.l ELSE r.o["results"].l

\* Every element of the collection is an object with all fields of
\* PropertyOption.
CompleteOptions(l) ==
    \A i \in DOMAIN l :
        l[i].t = "obj" /\ FieldNames("PropertyOption") \subseteq DOMAIN l[i].o

\* get_option_details received a collection of complete options.
GotOptions(t) ==
    /\ Done(t) /\ Delivered(t) /\ call[t].op = "get_option_details"
    /\ IsOptionCollection(Received(t))
    /\ CompleteOptions(OptionCollection(Received(t)))

HoldsOption(l, id) == \E i \in DOMAIN l : l[i].o["id"] = id

\* C27: get_option_details returns the option whose id is option_id whenever
\* the collection it receives, as a bare list or under the results key of a
\* mapping, holds such an option; when it holds none it fails with PlaneError;
\* it never returns an option with another id.
C27_OptionFoundInBothShapes ==
    \A t \in AllTasks :
        GotOptions(t) =>
            /\ HoldsOption(OptionCollection(Received(t)), call[t].pos["option_id"]) =>
                  /\ outcome[t].kind = "return"
                  /\ outcome[t].val.kind = "PropertyOption"
                  /\ outcome[t].val.o["id"] = call[t].pos["option_id"]
            /\ ~HoldsOption(OptionCollection(Received(t)), call[t].pos["option_id"]) =>
                  Raised(t, "PlaneError")

\* ---------------------------------------------------------------------------
\* get_intake_issues
\* ---------------------------------------------------------------------------
\* C28: the request of get_intake_issues is a GET on the intake-issues
\* collection of the project, the URL create_intake_issue posts to.
C28_IntakeListAddressesIntakeCollection ==
    \A t \in AllTasks :
        (pc[t] # "idle" /\ call[t].op = "get_intake_issues" /\ nreq[t] = 1) =>
            /\ req[t].method = "GET"
            /\ req[t].url = <<client.base_url>>
                  \o Endpoint(OpTable["create_intake_issue"], ArgsIn(call[t]), client)
            /\ req[t].url[Len(req[t].url)] = "/intake-issues/"

\* ---------------------------------------------------------------------------
\* State records
\* ---------------------------------------------------------------------------
\* The State records a call returned.
StatesReturned(t) ==
    IF outcome[t].val.t = "arr"
       THEN {outcome[t].val.l[i] : i \in DOMAIN outcome[t].val.l}
       ELSE {outcome[t].val}

\* C29: every State that get_states, get_state_details, create_state or
\* update_state returns has the workspace_slug of the client, whatever the
\* response carries under that key, and holds its sequence as a string.
C29_StateSlugAndSequence ==
    \A t \in AllTasks :
        (Returned(t) /\ TheOp(t).kind = "State" /\ TheOp(t).verb # "delete") =>
            \A s \in StatesReturned(t) :
                /\ s.t = "rec" /\ s.kind = "State"
                /\ s.o["workspace_slug"] = JStr(client.workspace_slug)
                /\ s.o["sequence"].t = "str"

\* update_state received a state with another workspace_slug and the number 1
\* as sequence, and returned a State with the client's slug and sequence '1'.
C29_Witness ==
    \E t \in AllTasks :
        /\ Returned(t) /\ Delivered(t) /\ call[t].op = "update_state"
        /\ Received(t).t = "obj"
        /\ "workspace_slug" \in DOMAIN Received(t).o
        /\ Received(t).o["workspace_slug"] # JStr(client.workspace_slug)
        /\ "sequence" \in DOMAIN Received(t).o
        /\ Received(t).o["sequence"] = JInt("1")
        /\ outcome[t].val.o["workspace_slug"] = JStr(client.workspace_slug)
        /\ outcome[t].val.o["sequence"] = JStr("1")

\* ---------------------------------------------------------------------------
\* Result of a delete
\* ---------------------------------------------------------------------------
\* C30: a delete returns True exactly when the server answered the DELETE
\* with a 2xx status: 200 with a JSON body, 200 with an empty or non-JSON
\* body, or 204.
C30_DeleteTrueOnSuccess ==
    \A t \in AllTasks :
        (Done(t) /\ TheOp(t).verb = "delete" /\ nreq[t] = 1) =>
            (outcome[t].val = JBool("True")
                <=> (~resp[t].fault /\ Success2xx(resp[t])))
====
